---- MODULE Spec2Model ----
(***************************************************************************)
(* geolore-tools: the hierarchical fallback geocoder                       *)
(* (src/geocoding/amap.py, geocode_with_fallback) and the concurrent batch *)
(* runner (src/processing/cleaner.py, run_batches).                        *)
(*                                                                         *)
(* Conventions.  A Python str is a sequence of one-character tokens.  A    *)
(* Python value that may be None is a sequence of length at most one:      *)
(* None is <<>> and a value x is <<x>>.  Coordinates are integers in units *)
(* of 1e-4 degree, distances are integers in units of 0.01 km.             *)
(***************************************************************************)
EXTENDS Integers, Sequences, FiniteSets, TLC

None == <<>>
Some(x) == <<x>>

----------------------------------------------------------------------------
(* Bounds of the model *)

\* number of geocode_with_fallback calls made on the shared cache
MaxResolves == 2

----------------------------------------------------------------------------
(* Strings *)

\* Python: p in s
IsSubstr(p, s) ==
  \E i \in 0..(Len(s) - Len(p)) : SubSeq(s, i + 1, i + Len(p)) = p

\* Python: s.replace(pat, "")
RECURSIVE Replace(_, _)
Replace(s, pat) ==
  IF Len(s) < Len(pat) THEN s
  ELSE IF SubSeq(s, 1, Len(pat)) = pat
       THEN Replace(SubSeq(s, Len(pat) + 1, Len(s)), pat)
       ELSE <<Head(s)>> \o Replace(Tail(s), pat)

\* Python: s.split("-")
RECURSIVE SplitDash(_, _)
SplitDash(s, cur) ==
  IF s = <<>> THEN <<cur>>
  ELSE IF Head(s) = "-" THEN <<cur>> \o SplitDash(Tail(s), <<>>)
       ELSE SplitDash(Tail(s), Append(cur, Head(s)))

\* Python: s.strip()
RECURSIVE Strip(_)
Strip(s) ==
  IF s = <<>> THEN s
  ELSE IF Head(s) = " " THEN Strip(Tail(s))
       ELSE IF s[Len(s)] = " " THEN Strip(SubSeq(s, 1, Len(s) - 1))
            ELSE s

\* Python: "".join(parts)
RECURSIVE Join(_)
Join(parts) ==
  IF parts = <<>> THEN <<>> ELSE Head(parts) \o Join(Tail(parts))

RECURSIVE DropEmpty(_)
DropEmpty(parts) ==
  IF parts = <<>> THEN <<>>
  ELSE IF Head(parts) = <<>> THEN DropEmpty(Tail(parts))
       ELSE <<Head(parts)>> \o DropEmpty(Tail(parts))

split_address_levels(address) ==
  LET parts == SplitDash(address, <<>>)
  IN  DropEmpty([i \in 1..Len(parts) |-> Strip(parts[i])])

----------------------------------------------------------------------------
(* The reference table and the distance *)

\* the city whose centre the addresses of the model refer to
Hangzhou == <<"H", "shi">>

CITY_CENTERS == [c \in {Hangzhou} |-> <<302741, 1201551>>]

MAX_DISTANCE ==
  [province |-> 80000, city |-> 15000, district |-> 5000, street |-> 2000]

\* haversine_distance on the coordinates of the model, tabulated from the
\* code's formula (R = 6371), in 0.01 km.  The points at a threshold are
\* the doubles (30.45364066173171, 120.16760000000001),
\* (30.71805086225816, 120.238) and (31.62073780851753, 120.2478), for which
\* the formula gives exactly 20.0, 50.0 and 150.0; the points beyond are
\* (30.453730756231344, 120.16760000000001), (30.71814195626306, 120.238)
\* and (31.620827899489267, 120.2478), at 20.01, 50.01 and 150.01; they are
\* named by their coordinates cut to 1e-4 degree.
HaversineTable ==
  { <<302741, 1201551, 302567, 1201486, 203>>,
    <<302741, 1201551, 300000, 1201551, 3048>>,
    <<302741, 1201551, 320603, 1187969, 23695>>,
    <<302741, 1201551, 304536, 1201676, 2000>>,
    <<302741, 1201551, 304537, 1201676, 2001>>,
    <<302741, 1201551, 307180, 1202380, 5000>>,
    <<302741, 1201551, 307181, 1202380, 5001>>,
    <<302741, 1201551, 316207, 1202478, 15000>>,
    <<302741, 1201551, 316208, 1202478, 15001>>,
    <<302741, 1201551, 0, 1201551, 336633>>,
    <<302741, 1201551, 302741, 0, 1077722>> }

haversine_distance(lat1, lon1, lat2, lon2) ==
  (CHOOSE t \in HaversineTable :
     t[1] = lat1 /\ t[2] = lon1 /\ t[3] = lat2 /\ t[4] = lon2)[5]

----------------------------------------------------------------------------
(* Python truthiness and "or" on optional strings and numbers *)

TruthyStr(o) == o # None /\ o[1] # <<>>
TruthyNum(o) == o # None /\ o[1] # 0
OrStr(a, b) == IF TruthyStr(a) THEN a ELSE b

----------------------------------------------------------------------------
(* Validation (amap.py) *)

\* the suffixes removed from the city name: "市", "地区", "自治州"
SuffixShi == <<"shi">>
SuffixDiqu == <<"di", "qu">>
SuffixZizhizhou == <<"zi", "zhi", "zhou">>

validate_locality_match(query_levels, result) ==
  LET result_locality == result.locality
      result_formatted ==
        IF TruthyStr(result.display_name) THEN result.display_name[1] ELSE <<>>
      query_city == IF Len(query_levels) >= 2 THEN query_levels[2] ELSE <<>>
      query_district == IF Len(query_levels) >= 3 THEN query_levels[3] ELSE <<>>
      query_city_base ==
        Replace(Replace(Replace(query_city, SuffixShi), SuffixDiqu),
                SuffixZizhizhou)
  IN  IF TruthyStr(result_locality)
      THEN IF /\ query_district # <<>>
              /\ ~IsSubstr(query_district, result_locality[1])
              /\ ~IsSubstr(query_district, result_formatted)
           THEN FALSE
           ELSE IF /\ query_city # <<>>
                   /\ ~IsSubstr(query_city, result_formatted)
                   /\ query_city_base # <<>>
                   /\ ~IsSubstr(query_city_base, result_formatted)
                THEN FALSE
                ELSE TRUE
      ELSE TRUE

\* mutant: a result at the threshold is rejected
validate_coordinate_distance_Strict(query_levels, result) ==
  IF ~TruthyNum(result.lat) \/ ~TruthyNum(result.lon) THEN TRUE
  ELSE LET query_city == IF Len(query_levels) >= 2 THEN query_levels[2] ELSE <<>>
       IN  IF query_city = <<>> \/ query_city \notin DOMAIN CITY_CENTERS THEN TRUE
           ELSE LET centre == CITY_CENTERS[query_city]
                    distance == haversine_distance(centre[1], centre[2],
                                                   result.lat[1], result.lon[1])
                    max_dist ==
                      IF Len(query_levels) >= 4 THEN MAX_DISTANCE.street
                      ELSE IF Len(query_levels) >= 3 THEN MAX_DISTANCE.district
                      ELSE IF Len(query_levels) >= 2 THEN MAX_DISTANCE.city
                      ELSE MAX_DISTANCE.province
                IN  ~(distance >= max_dist)

validate_coordinate_distance(query_levels, result) ==
  IF ~TruthyNum(result.lat) \/ ~TruthyNum(result.lon) THEN TRUE
  ELSE LET query_city == IF Len(query_levels) >= 2 THEN query_levels[2] ELSE <<>>
       IN  IF query_city = <<>> \/ query_city \notin DOMAIN CITY_CENTERS THEN TRUE
           ELSE LET centre == CITY_CENTERS[query_city]
                    distance == haversine_distance(centre[1], centre[2],
                                                   result.lat[1], result.lon[1])
                    max_dist ==
                      IF Len(query_levels) >= 4 THEN MAX_DISTANCE.street
                      ELSE IF Len(query_levels) >= 3 THEN MAX_DISTANCE.district
                      ELSE IF Len(query_levels) >= 2 THEN MAX_DISTANCE.city
                      ELSE MAX_DISTANCE.province
                IN  ~(distance > max_dist)

----------------------------------------------------------------------------
(* AmapClient *)

\* "lon,lat": the parts of location around the comma, each a number or
\* None when float() rejects it; no comma is a single part, "" is none
ParseLocation(loc) ==
  IF Len(loc) >= 2
  THEN IF loc[1] = None THEN [lon |-> None, lat |-> None]
       ELSE IF loc[2] = None THEN [lon |-> loc[1], lat |-> None]
            ELSE [lon |-> loc[1], lat |-> loc[2]]
  ELSE [lon |-> None, lat |-> None]

normalize_poi(poi) ==
  LET p == ParseLocation(poi.location)
  IN  [lat |-> p.lat, lon |-> p.lon,
       display_name |-> poi.name,
       locality |-> OrStr(poi.adname, poi.cityname)]

normalize_geocode(geo) ==
  LET p == ParseLocation(geo.location)
  IN  [lat |-> p.lat, lon |-> p.lon,
       display_name |-> OrStr(geo.formatted_address, geo.level),
       locality |-> OrStr(geo.district, geo.city)]

\* the body of place_search after _http_get returned data
place_search(data) == IF data.status # "1" THEN <<>> ELSE data.pois

\* the body of geocode after _http_get returned data
geocode(data) == IF data.status # "1" THEN <<>> ELSE data.geocodes

----------------------------------------------------------------------------
(* The inputs of the model: address strings and provider replies *)

AddrStreet == <<"Z", "-", "H", "shi", "-", "S", "-", "L">>
AddrMerged == <<"Z", "-", "H", "shi", "S">>
AddrCity == <<"Z", "-", " ", "H", "shi", " ", "-", "-">>
AddrBlank == <<" ", "-", " ">>

Addresses == {AddrStreet, AddrMerged, AddrCity, AddrBlank}

LocNear == <<Some(1201486), Some(302567)>>
LocMid == <<Some(1201551), Some(300000)>>
LocFar == <<Some(1187969), Some(320603)>>

PoiGood ==
  [location |-> LocNear, name |-> Some(<<"H", "M">>),
   cityname |-> Some(Hangzhou), adname |-> Some(<<"S">>)]
PoiFar == [PoiGood EXCEPT !.location = LocFar]
PoiMid == [PoiGood EXCEPT !.location = LocMid]

GeoGood ==
  [location |-> LocNear, formatted_address |-> Some(<<"Z", "H", "shi", "S">>),
   level |-> None, city |-> Some(Hangzhou), district |-> Some(<<"S">>)]
GeoWrongDistrict ==
  [GeoGood EXCEPT !.district = Some(<<"X">>),
                  !.formatted_address = Some(<<"Z", "H", "shi", "X">>)]

\* what _http_get gives place_search: it raises, or returns the decoded body
PlaceReplies ==
  { [raised |-> TRUE, status |-> "0", pois |-> <<>>],
    [raised |-> FALSE, status |-> "0", pois |-> <<PoiGood>>],
    [raised |-> FALSE, status |-> "1", pois |-> <<>>],
    [raised |-> FALSE, status |-> "1", pois |-> <<PoiGood>>],
    [raised |-> FALSE, status |-> "1", pois |-> <<PoiFar, PoiGood>>],
    [raised |-> FALSE, status |-> "1", pois |-> <<PoiMid>>] }

\* what _http_get gives geocode
GeocodeReplies ==
  { [raised |-> TRUE, status |-> "0", geocodes |-> <<>>],
    [raised |-> FALSE, status |-> "1", geocodes |-> <<>>],
    [raised |-> FALSE, status |-> "1", geocodes |-> <<GeoGood>>],
    [raised |-> FALSE, status |-> "1", geocodes |-> <<GeoWrongDistrict>>] }

----------------------------------------------------------------------------
(* geocode_with_fallback *)

VARIABLES
  cache,              \* the cache dict: cache key -> result or None
  enable_validation,  \* the enable_validation argument of the run
  pc,                 \* "idle", "check", "place", "geocode", "done"
  address,            \* the address argument of the call in progress
  levels,             \* split_address_levels(address)
  num_levels,         \* the loop variable
  meta,               \* the meta dict
  ret,                \* the result returned (None or a result)
  resolves,           \* calls of geocode_with_fallback started so far
  cache0,             \* history: the cache when the call started
  calls,              \* history: the provider calls of the call in progress
  rounds,             \* history: query -> number of place_search calls, ever
  prev                \* history: address and result of the previous call

rvars ==
  <<cache, enable_validation, pc, address, levels, num_levels, meta, ret,
    resolves, cache0, calls, rounds, prev>>

query_of(lv, n) == Join(SubSeq(lv, 1, n))

cache_key_of(query) == <<"amap:">> \o query

\* mutant: the index is counted one too high
level_index_of_OffByOne(lv, n) == Len(lv) - n + 1

level_index_of(lv, n) == Len(lv) - n

query == query_of(levels, num_levels)
cache_key == cache_key_of(query)

\* the first level is the city parameter of both searches
city_param == levels[1]

validation_failed(lv, result) ==
  LET locality_ok == validate_locality_match(lv, result)
      distance_ok == validate_coordinate_distance(lv, result)
  IN  ~locality_ok \/ ~distance_ok

\* mutant: the loop variable goes down by two
Continue_SkipsPrefix(m) ==
  /\ meta' = m
  /\ num_levels' = num_levels - 2
  /\ IF num_levels - 2 >= 1
     THEN pc' = "check" /\ ret' = ret
     ELSE pc' = "done" /\ ret' = None

\* the next iteration of the for loop, or the return after it
Continue(m) ==
  /\ meta' = m
  /\ num_levels' = num_levels - 1
  /\ IF num_levels - 1 >= 1
     THEN pc' = "check" /\ ret' = ret
     ELSE pc' = "done" /\ ret' = None

\* mutant: validationPassed keeps what an earlier iteration left in meta
Return_StaleValidation(result, method) ==
  /\ meta' = [matchLevel |-> Some(level_index_of(levels, num_levels)),
              matchMethod |-> Some(method),
              validationPassed |-> IF meta.validationPassed = None
                                   THEN Some(TRUE) ELSE meta.validationPassed]
  /\ ret' = Some(result)
  /\ pc' = "done"
  /\ num_levels' = num_levels

Return(result, method) ==
  /\ meta' = [matchLevel |-> Some(level_index_of(levels, num_levels)),
              matchMethod |-> Some(method),
              validationPassed |-> Some(TRUE)]
  /\ ret' = Some(result)
  /\ pc' = "done"
  /\ num_levels' = num_levels

NoMeta == [matchLevel |-> None, matchMethod |-> None, validationPassed |-> None]

AllQueries ==
  UNION { {query_of(split_address_levels(a), n) :
             n \in 1..Len(split_address_levels(a))} : a \in Addresses }

RInit ==
  /\ cache = <<>>
  /\ enable_validation \in BOOLEAN
  /\ pc = "idle"
  /\ address = <<>>
  /\ levels = <<>>
  /\ num_levels = 0
  /\ meta = NoMeta
  /\ ret = None
  /\ resolves = 0
  /\ cache0 = <<>>
  /\ calls = <<>>
  /\ rounds = [q \in AllQueries |-> 0]
  /\ prev = None

\* a call of geocode_with_fallback, up to the first loop iteration
Resolve(a) ==
  /\ pc \in {"idle", "done"}
  /\ resolves < MaxResolves
  /\ resolves' = resolves + 1
  /\ address' = a
  /\ levels' = split_address_levels(a)
  /\ prev' = IF pc = "done" THEN Some([address |-> address, ret |-> ret]) ELSE None
  /\ cache0' = cache
  /\ calls' = <<>>
  /\ meta' = NoMeta
  /\ ret' = None
  /\ num_levels' = Len(levels')
  /\ pc' = IF levels' = <<>> THEN "done" ELSE "check"
  /\ UNCHANGED <<cache, enable_validation, rounds>>

\* mutant: a negative entry is treated like a missing one
CheckCache_NegativeRequeried ==
  /\ pc = "check"
  /\ IF cache_key \in DOMAIN cache /\ cache[cache_key] # None
     THEN /\ Return(cache[cache_key][1], "cache")
     ELSE /\ pc' = "place"
          /\ UNCHANGED <<meta, ret, num_levels>>
  /\ UNCHANGED <<cache, enable_validation, address, levels, resolves, cache0,
                 calls, rounds, prev>>

\* mutant: a positive entry is skipped like a negative one
CheckCache_PositiveSkipped ==
  /\ pc = "check"
  /\ IF cache_key \in DOMAIN cache
     THEN /\ Continue(meta)
     ELSE /\ pc' = "place"
          /\ UNCHANGED <<meta, ret, num_levels>>
  /\ UNCHANGED <<cache, enable_validation, address, levels, resolves, cache0,
                 calls, rounds, prev>>

\* the cache lookup at the head of an iteration
CheckCache ==
  /\ pc = "check"
  /\ IF cache_key \in DOMAIN cache
     THEN IF cache[cache_key] # None
          THEN /\ Return(cache[cache_key][1], "cache")
          ELSE /\ Continue(meta)
     ELSE /\ pc' = "place"
          /\ UNCHANGED <<meta, ret, num_levels>>
  /\ UNCHANGED <<cache, enable_validation, address, levels, resolves, cache0,
                 calls, rounds, prev>>

\* mutant: the assignment starts a fresh dict
CachePut_Fresh(key, value) == cache' = [k \in {key} |-> value]

\* mutant: the assignment to the cache is lost
CachePut_Lost(key, value) == cache' = cache

CachePut(key, value) ==
  cache' = [k \in DOMAIN cache \cup {key} |-> IF k = key THEN value ELSE cache[k]]

Called(ep, outcome, result) ==
  calls' = Append(calls, [ep |-> ep, n |-> num_levels, outcome |-> outcome,
                          result |-> result])

\* client.place_search(query, city) and what follows its return
PlaceSearch(data) ==
  /\ pc = "place"
  /\ rounds' = [rounds EXCEPT ![query] = @ + 1]
  /\ IF data.raised
     THEN /\ CachePut(cache_key, None)
          /\ Called("place", "raised", None)
          /\ Continue(meta)
     ELSE LET pois == place_search(data)
          IN  IF pois # <<>>
              THEN LET result == normalize_poi(pois[1])
                   IN  IF enable_validation /\ validation_failed(levels, result)
                       THEN /\ Called("place", "invalid", Some(result))
                            /\ Continue([meta EXCEPT !.validationPassed = Some(FALSE)])
                            /\ cache' = cache
                       ELSE /\ Called("place", "valid", Some(result))
                            /\ CachePut(cache_key, Some(result))
                            /\ Return(result, "amap_place")
              ELSE /\ Called("place", "nohits", None)
                   /\ pc' = "geocode"
                   /\ UNCHANGED <<cache, meta, ret, num_levels>>
  /\ UNCHANGED <<enable_validation, address, levels, resolves, cache0, prev>>

\* client.geocode(query, city) and what follows its return
Geocode(data) ==
  /\ pc = "geocode"
  /\ IF data.raised
     THEN /\ CachePut(cache_key, None)
          /\ Called("geocode", "raised", None)
          /\ Continue(meta)
     ELSE LET geocodes == geocode(data)
          IN  IF geocodes # <<>>
              THEN LET result == normalize_geocode(geocodes[1])
                   IN  IF enable_validation /\ validation_failed(levels, result)
                       THEN /\ Called("geocode", "invalid", Some(result))
                            /\ Continue([meta EXCEPT !.validationPassed = Some(FALSE)])
                            /\ cache' = cache
                       ELSE /\ Called("geocode", "valid", Some(result))
                            /\ CachePut(cache_key, Some(result))
                            /\ Return(result, "amap_geocode")
              ELSE /\ Called("geocode", "nohits", None)
                   /\ CachePut(cache_key, None)
                   /\ Continue(meta)
  /\ UNCHANGED <<enable_validation, address, levels, resolves, cache0, rounds,
                 prev>>

----------------------------------------------------------------------------
(* run_batches (cleaner.py): the model's inputs *)

\* number of batches chunk_list produces
NumBatches == 3

Batches == 0..(NumBatches - 1)

\* the --max-concurrency, --retries and --rate-limit values of the model
ConcurrencyChoices == {1, 2}
RetriesChoices == {0, 1, 2, 3}

\* the object a success writes to batch_jsonl
SuccessRecord(i, arr) == [batchIndex |-> i, output |-> arr]

\* a line of the errors file
ErrorRecord(i) == [batchIndex |-> i, error |-> "error"]

\* The text of a line is a sequence of pieces: json.dumps(obj) is one whole
\* piece, and a write cut short by a crash leaves a proper prefix of it.
json_dumps(obj) == << [obj |-> obj, whole |-> TRUE] >>

Truncated(obj) == << [obj |-> obj, whole |-> FALSE] >>

\* json.loads(line): the object, or None for json.JSONDecodeError
json_loads(line) ==
  IF Len(line) = 1 /\ line[1].whole THEN Some(line[1].obj) ELSE None

\* what "for line in f" yields: the complete lines, then an unterminated one
file_lines(lines, tail) == IF tail = <<>> THEN lines ELSE Append(lines, tail)

\* os.path.exists(path): a log without content is a log not yet created
exists(lines, tail) == lines # <<>> \/ tail # <<>>

\* what batch_jsonl holds when run_batches starts: nothing, one success of an
\* earlier run, or that success followed by the cut line of a crashed write
InitialLogs ==
  { [lines |-> <<>>, tail |-> <<>>],
    [lines |-> << json_dumps(SuccessRecord(0, <<0>>)) >>, tail |-> <<>>],
    [lines |-> << json_dumps(SuccessRecord(0, <<0>>)) >>,
     tail |-> Truncated(SuccessRecord(1, <<1>>))] }

\* what parse_output makes of the reply for batch i: the cleaned items, or
\* (for the first batch of the model) no item at all
Outputs(i) == IF i = 0 THEN { <<>>, <<i>> } ELSE { <<i>> }

VARIABLES
  max_concurrency,  \* the max_concurrency argument
  retries,          \* the retries argument
  resume,           \* the resume argument
  limiter_enabled,  \* RateLimiter.enabled
  writable,         \* whether open(path, "a") succeeds in this run
  done,             \* the set load_done_batches returned
  sem,              \* the value of the semaphore
  limiter_lock,     \* holder of RateLimiter._lock, or None
  last,             \* RateLimiter._last, in ticks of the monotonic clock
  wake,             \* the clock when the sleep of the lock's holder ends
  write_lock,       \* holder of write_lock, or None
  wpc,              \* each worker's position
  attempt,          \* each worker's loop variable
  arr,              \* each worker's parsed output
  batch_log,        \* the newline-terminated lines of batch_jsonl
  batch_tail,       \* the unterminated text at the end of batch_jsonl
  errors_log,       \* the lines of batch_jsonl + ".errors.jsonl"
  slept,            \* history: each worker's backoff sleeps, in seconds
  invoked,          \* history: each worker's number of call_api calls
  log0,             \* history: batch_jsonl when run_batches started
  mpc,              \* run_batches itself: "gather", "finished", "aborted", "nolog"
  merged            \* the list written to output_json

\* RateLimiter.interval = 1.0 / rps, in ticks of the clock
interval == 2

\* the longest time between a release and the next reading of the clock (a
\* later reading gives what a late end of the sleep gives), and the longest
\* delay of the end of a sleep; sleeps end late only up to MaxClock
MaxElapsed == interval
MaxLate == 1
MaxClock == 5

\* the arguments and what run_batches computes before the dispatch
bargs == <<max_concurrency, retries, resume, limiter_enabled, writable, done, log0>>

\* the clock of the limiter
lvars == <<last, wake>>

bvars ==
  <<bargs, lvars, sem, limiter_lock, write_lock, wpc, attempt, arr, batch_log,
    batch_tail, errors_log, slept, invoked, mpc, merged>>

\* mutant: the batch index of a cut line counts as done too
load_done_batches_Lenient(lines) ==
  { lines[k][1].obj.batchIndex : k \in {k \in 1..Len(lines) : lines[k] # <<>>} }

load_done_batches(lines) ==
  { json_loads(lines[k])[1].batchIndex :
      k \in {k \in 1..Len(lines) : json_loads(lines[k]) # None} }

\* the runs of the model: the combinations of the arguments on a writable
\* log that ends in a newline (a resumed run has a log to read; with a rate
\* limit: two attempts per item, two slots, no log), and without rate limit
\* and with one slot, the longest retry loop on a resumed run, the unwritable
\* log, and the log cut by a crash
Runs ==
  { c \in [max_concurrency : ConcurrencyChoices, retries : RetriesChoices,
            resume : BOOLEAN, limiter_enabled : BOOLEAN, writable : BOOLEAN,
            log : InitialLogs] :
      \/ /\ c.retries < 3 /\ c.writable /\ c.log.tail = <<>>
         /\ c.resume => c.log.lines # <<>>
         /\ c.limiter_enabled =>
                   c.retries = 2 /\ c.max_concurrency = 2 /\ c.log.lines = <<>>
      \/ /\ ~c.limiter_enabled /\ c.max_concurrency = 1
         /\ \/ c.retries = 3 /\ c.writable /\ c.resume /\ c.log.lines # <<>> /\ c.log.tail = <<>>
            \/ c.retries = 2 /\ ~c.writable /\ ~c.resume /\ c.log.lines = <<>>
            \/ c.retries = 1 /\ c.writable /\ c.log.tail # <<>> }

BInit ==
  /\ \E c \in Runs :
       /\ max_concurrency = c.max_concurrency
       /\ retries = c.retries
       /\ resume = c.resume
       /\ limiter_enabled = c.limiter_enabled
       /\ writable = c.writable
       /\ log0 = c.log
  /\ batch_log = log0.lines
  /\ batch_tail = log0.tail
  /\ done = IF resume THEN load_done_batches(file_lines(batch_log, batch_tail))
            ELSE {}
  /\ sem = max_concurrency
  /\ limiter_lock = None
  /\ last = 0
  /\ wake = 0
  /\ write_lock = None
  /\ wpc = [i \in Batches |-> "start"]
  /\ attempt = [i \in Batches |-> 0]
  /\ arr = [i \in Batches |-> <<>>]
  /\ errors_log = <<>>
  /\ slept = [i \in Batches |-> <<>>]
  /\ invoked = [i \in Batches |-> 0]
  /\ mpc = "gather"
  /\ merged = <<>>

\* the positions at which a worker is inside "async with sem"
GatePositions == {"limiter", "limited", "call", "append", "writing"}

\* mutant: the resume test is left out
Start_NoResumeTest(i) ==
  /\ mpc = "gather"
  /\ wpc[i] = "start"
  /\ IF 1 < retries + 1
     THEN /\ wpc' = [wpc EXCEPT ![i] = "sem"]
          /\ attempt' = [attempt EXCEPT ![i] = 1]
     ELSE wpc' = [wpc EXCEPT ![i] = "done"] /\ attempt' = attempt
  /\ UNCHANGED <<bargs, lvars, sem, limiter_lock, write_lock, arr, batch_log,
                 batch_tail, errors_log, slept, invoked, mpc, merged>>

\* worker(i) up to its first await: the resume test and the loop entry
Start(i) ==
  /\ mpc = "gather"
  /\ wpc[i] = "start"
  /\ IF resume /\ i \in done
     THEN wpc' = [wpc EXCEPT ![i] = "done"] /\ attempt' = attempt
     ELSE IF 1 < retries + 1
          THEN /\ wpc' = [wpc EXCEPT ![i] = "sem"]
               /\ attempt' = [attempt EXCEPT ![i] = 1]
          ELSE wpc' = [wpc EXCEPT ![i] = "done"] /\ attempt' = attempt
  /\ UNCHANGED <<bargs, lvars, sem, limiter_lock, write_lock, arr, batch_log,
                 batch_tail, errors_log, slept, invoked, mpc, merged>>

\* mutant: the semaphore is entered without waiting for a free slot
AcquireSem_NoWait(i) ==
  /\ mpc = "gather"
  /\ wpc[i] = "sem"
  /\ sem' = IF sem > 0 THEN sem - 1 ELSE sem
  /\ wpc' = [wpc EXCEPT ![i] = "limiter"]
  /\ UNCHANGED <<bargs, lvars, limiter_lock, write_lock, attempt, arr, batch_log,
                 batch_tail, errors_log, slept, invoked, mpc, merged>>

\* async with sem: entry
AcquireSem(i) ==
  /\ mpc = "gather"
  /\ wpc[i] = "sem"
  /\ sem > 0
  /\ sem' = sem - 1
  /\ wpc' = [wpc EXCEPT ![i] = "limiter"]
  /\ UNCHANGED <<bargs, lvars, limiter_lock, write_lock, attempt, arr, batch_log,
                 batch_tail, errors_log, slept, invoked, mpc, merged>>

\* mutant: wait() takes the lock and never sleeps
LimiterEnter_NoSleep(i) ==
  /\ mpc = "gather"
  /\ wpc[i] = "limiter"
  /\ IF ~limiter_enabled
     THEN /\ wpc' = [wpc EXCEPT ![i] = "call"]
          /\ invoked' = [invoked EXCEPT ![i] = @ + 1]
          /\ UNCHANGED <<limiter_lock, wake>>
     ELSE /\ limiter_lock = None
          /\ limiter_lock' = Some(i)
          /\ \E elapsed \in 0..MaxElapsed : wake' = last + elapsed
          /\ wpc' = [wpc EXCEPT ![i] = "limited"]
          /\ invoked' = invoked
  /\ UNCHANGED <<bargs, last, sem, write_lock, attempt, arr, batch_log,
                 batch_tail, errors_log, slept, mpc, merged>>

\* limiter.wait(): returns at once when disabled, and then call_api is
\* invoked; else takes the lock, reads the clock (now = _last + elapsed: the
\* clock is monotonic and _last was its last reading) and sleeps for
\* interval - elapsed when elapsed < interval
LimiterEnter(i) ==
  /\ mpc = "gather"
  /\ wpc[i] = "limiter"
  /\ IF ~limiter_enabled
     THEN /\ wpc' = [wpc EXCEPT ![i] = "call"]
          /\ invoked' = [invoked EXCEPT ![i] = @ + 1]
          /\ UNCHANGED <<limiter_lock, wake>>
     ELSE /\ limiter_lock = None
          /\ limiter_lock' = Some(i)
          /\ \E elapsed \in 0..MaxElapsed :
               LET now == last + elapsed
               IN  wake' = IF elapsed < interval
                           THEN now + (interval - elapsed)
                           ELSE now
          /\ wpc' = [wpc EXCEPT ![i] = "limited"]
          /\ invoked' = invoked
  /\ UNCHANGED <<bargs, last, sem, write_lock, attempt, arr, batch_log,
                 batch_tail, errors_log, slept, mpc, merged>>

\* limiter.wait(): the sleep is over, at its end or late, _last is set to
\* the clock, the lock is released; call_api is invoked
LimiterExit(i) ==
  /\ mpc = "gather"
  /\ wpc[i] = "limited"
  /\ limiter_lock = Some(i)
  /\ limiter_lock' = None
  /\ \E late \in 0..MaxLate :
       /\ late > 0 => wake + late <= MaxClock
       /\ last' = wake + late
  /\ wake' = 0
  /\ wpc' = [wpc EXCEPT ![i] = "call"]
  /\ invoked' = [invoked EXCEPT ![i] = @ + 1]
  /\ UNCHANGED <<bargs, sem, write_lock, attempt, arr, batch_log, batch_tail,
                 errors_log, slept, mpc, merged>>

\* mutant: the except clause gives up one attempt later
Except_OneMoreAttempt(i) ==
  /\ sem' = sem + 1
  /\ IF attempt[i] > retries
     THEN wpc' = [wpc EXCEPT ![i] = "errappend"]
     ELSE wpc' = [wpc EXCEPT ![i] = "backoff"]

\* mutant: the slot is kept through the except clause and the backoff
Except_KeepsSlot(i) ==
  /\ sem' = sem
  /\ IF attempt[i] >= retries
     THEN wpc' = [wpc EXCEPT ![i] = "errappend"]
     ELSE wpc' = [wpc EXCEPT ![i] = "backoff"]

\* the except clause, entered after "async with sem" released the slot
Except(i) ==
  /\ sem' = sem + 1
  /\ IF attempt[i] >= retries
     THEN wpc' = [wpc EXCEPT ![i] = "errappend"]
     ELSE wpc' = [wpc EXCEPT ![i] = "backoff"]

\* call_api returns and parse_output gives out
CallReturns(i, out) ==
  /\ mpc = "gather"
  /\ wpc[i] = "call"
  /\ arr' = [arr EXCEPT ![i] = out]
  /\ wpc' = [wpc EXCEPT ![i] = "append"]
  /\ UNCHANGED <<bargs, lvars, sem, limiter_lock, write_lock, attempt, batch_log,
                 batch_tail, errors_log, slept, invoked, mpc, merged>>

\* mutant: the exception of call_api is not caught and leaves worker
CallRaises_Escapes(i) ==
  /\ mpc = "gather"
  /\ wpc[i] = "call"
  /\ sem' = sem + 1
  /\ wpc' = [wpc EXCEPT ![i] = "raised"]
  /\ mpc' = "aborted"
  /\ UNCHANGED <<bargs, lvars, limiter_lock, write_lock, attempt, arr, batch_log,
                 batch_tail, errors_log, slept, invoked, merged>>

\* call_api raises
CallRaises(i) ==
  /\ mpc = "gather"
  /\ wpc[i] = "call"
  /\ Except(i)
  /\ UNCHANGED <<bargs, lvars, limiter_lock, write_lock, attempt, arr, batch_log,
                 batch_tail, errors_log, slept, invoked, mpc, merged>>

\* mutant: append_safe enters without waiting for write_lock
WriteLockEnter_NoWait(i) ==
  /\ mpc = "gather"
  /\ wpc[i] \in {"append", "errappend"}
  /\ write_lock' = Some(i)
  /\ wpc' = [wpc EXCEPT ![i] = IF wpc[i] = "append" THEN "writing" ELSE "errwriting"]
  /\ UNCHANGED <<bargs, lvars, sem, limiter_lock, attempt, arr, batch_log, batch_tail,
                 errors_log, slept, invoked, mpc, merged>>

\* append_safe: async with write_lock, entry
WriteLockEnter(i) ==
  /\ mpc = "gather"
  /\ wpc[i] \in {"append", "errappend"}
  /\ write_lock = None
  /\ write_lock' = Some(i)
  /\ wpc' = [wpc EXCEPT ![i] = IF wpc[i] = "append" THEN "writing" ELSE "errwriting"]
  /\ UNCHANGED <<bargs, lvars, sem, limiter_lock, attempt, arr, batch_log, batch_tail,
                 errors_log, slept, invoked, mpc, merged>>

\* append_jsonl: the lines of the file after f.write(json.dumps(obj) + "\n")
\* in append mode; the text lands behind whatever the file ended with
append_jsonl(lines, tail, obj) == Append(lines, tail \o json_dumps(obj))

\* mutant: write_lock is still held after the record is written
AppendSuccess_KeepsLock(i) ==
  /\ mpc = "gather"
  /\ wpc[i] = "writing"
  /\ write_lock = Some(i)
  /\ writable
  /\ batch_log' = append_jsonl(batch_log, batch_tail, SuccessRecord(i, arr[i]))
  /\ batch_tail' = <<>>
  /\ write_lock' = write_lock
  /\ sem' = sem + 1
  /\ wpc' = [wpc EXCEPT ![i] = "done"]
  /\ UNCHANGED <<bargs, lvars, limiter_lock, attempt, arr, errors_log, slept,
                 invoked, mpc, merged>>

\* append_jsonl(batch_jsonl, ...), the release of both locks and the return
AppendSuccess(i) ==
  /\ mpc = "gather"
  /\ wpc[i] = "writing"
  /\ write_lock = Some(i)
  /\ writable
  /\ batch_log' = append_jsonl(batch_log, batch_tail, SuccessRecord(i, arr[i]))
  /\ batch_tail' = <<>>
  /\ write_lock' = None
  /\ sem' = sem + 1
  /\ wpc' = [wpc EXCEPT ![i] = "done"]
  /\ UNCHANGED <<bargs, lvars, limiter_lock, attempt, arr, errors_log, slept,
                 invoked, mpc, merged>>

\* append_jsonl(batch_jsonl, ...) raises OSError: both locks are released
\* and the except clause of the retry loop catches it
AppendRaises(i) ==
  /\ mpc = "gather"
  /\ wpc[i] = "writing"
  /\ write_lock = Some(i)
  /\ ~writable
  /\ write_lock' = None
  /\ Except(i)
  /\ UNCHANGED <<bargs, lvars, limiter_lock, attempt, arr, batch_log, batch_tail,
                 errors_log, slept, invoked, mpc, merged>>

\* append_jsonl(batch_jsonl + ".errors.jsonl", ...) and the return
AppendError(i) ==
  /\ mpc = "gather"
  /\ wpc[i] = "errwriting"
  /\ write_lock = Some(i)
  /\ writable
  /\ errors_log' = Append(errors_log, ErrorRecord(i))
  /\ write_lock' = None
  /\ wpc' = [wpc EXCEPT ![i] = "done"]
  /\ UNCHANGED <<bargs, lvars, sem, limiter_lock, attempt, arr, batch_log,
                 batch_tail, slept, invoked, mpc, merged>>

\* append_jsonl(batch_jsonl + ".errors.jsonl", ...) raises OSError inside the
\* except clause: the exception leaves worker and asyncio.gather re-raises it
AppendErrorRaises(i) ==
  /\ mpc = "gather"
  /\ wpc[i] = "errwriting"
  /\ write_lock = Some(i)
  /\ ~writable
  /\ write_lock' = None
  /\ wpc' = [wpc EXCEPT ![i] = "raised"]
  /\ mpc' = "aborted"
  /\ UNCHANGED <<bargs, lvars, sem, limiter_lock, attempt, arr, batch_log,
                 batch_tail, errors_log, slept, invoked, merged>>

\* 2 ** n
RECURSIVE Pow2(_)
Pow2(n) == IF n = 0 THEN 1 ELSE 2 * Pow2(n - 1)

\* mutant: the exponent is the attempt number
backoff_of_Doubled(a) == Pow2(a)

\* backoff = 2 ** (attempt - 1)
backoff_of(a) == Pow2(a - 1)

\* asyncio.sleep(backoff) is over: the next iteration of the retry loop
Backoff(i) ==
  /\ mpc = "gather"
  /\ wpc[i] = "backoff"
  /\ slept' = [slept EXCEPT ![i] = Append(@, backoff_of(attempt[i]))]
  /\ attempt' = [attempt EXCEPT ![i] = @ + 1]
  /\ wpc' = [wpc EXCEPT ![i] = "sem"]
  /\ UNCHANGED <<bargs, lvars, sem, limiter_lock, write_lock, arr, batch_log,
                 batch_tail, errors_log, invoked, mpc, merged>>

\* results_by_batch: the output of the last parsable line of each batch index
results_by_batch(lines, i) ==
  LET ks == {k \in 1..Len(lines) :
               /\ json_loads(lines[k]) # None
               /\ json_loads(lines[k])[1].batchIndex = i}
  IN  IF ks = {} THEN <<>>
      ELSE json_loads(lines[CHOOSE k \in ks : \A k2 \in ks : k2 <= k])[1].output

\* merged: the outputs by ascending batch index
RECURSIVE MergeFrom(_, _)
MergeFrom(lines, i) ==
  IF i >= NumBatches THEN <<>>
  ELSE results_by_batch(lines, i) \o MergeFrom(lines, i + 1)

\* the outputs of the parsable lines in the order of the file
RECURSIVE LogOrder(_)
LogOrder(lines) ==
  IF lines = <<>> THEN <<>>
  ELSE (IF json_loads(Head(lines)) # None
        THEN json_loads(Head(lines))[1].output ELSE <<>>)
       \o LogOrder(Tail(lines))

\* mutant: the aggregation lists the outputs in the order of the log
Aggregate_LogOrder ==
  /\ mpc = "gather"
  /\ \A i \in Batches : wpc[i] = "done"
  /\ exists(batch_log, batch_tail)
  /\ merged' = LogOrder(file_lines(batch_log, batch_tail))
  /\ mpc' = "finished"
  /\ UNCHANGED <<bargs, lvars, sem, limiter_lock, write_lock, wpc, attempt, arr,
                 batch_log, batch_tail, errors_log, slept, invoked>>

\* after gather: the aggregation of batch_jsonl into output_json
Aggregate ==
  /\ mpc = "gather"
  /\ \A i \in Batches : wpc[i] = "done"
  /\ exists(batch_log, batch_tail)
  /\ merged' = MergeFrom(file_lines(batch_log, batch_tail), 0)
  /\ mpc' = "finished"
  /\ UNCHANGED <<bargs, lvars, sem, limiter_lock, write_lock, wpc, attempt, arr,
                 batch_log, batch_tail, errors_log, slept, invoked>>

\* after gather: open(batch_jsonl) raises FileNotFoundError, no output_json
AggregateNoLog ==
  /\ mpc = "gather"
  /\ \A i \in Batches : wpc[i] = "done"
  /\ ~exists(batch_log, batch_tail)
  /\ mpc' = "nolog"
  /\ UNCHANGED <<bargs, lvars, sem, limiter_lock, write_lock, wpc, attempt, arr,
                 batch_log, batch_tail, errors_log, slept, invoked, merged>>

\* the batch runner at rest, for the specification of the resolver
BIdle ==
  /\ max_concurrency = 1
  /\ retries = 0
  /\ resume = FALSE
  /\ limiter_enabled = FALSE
  /\ writable = TRUE
  /\ log0 = [lines |-> <<>>, tail |-> <<>>]
  /\ batch_log = <<>>
  /\ batch_tail = <<>>
  /\ done = {}
  /\ sem = 1
  /\ limiter_lock = None
  /\ last = 0
  /\ wake = 0
  /\ write_lock = None
  /\ wpc = [i \in Batches |-> "start"]
  /\ attempt = [i \in Batches |-> 0]
  /\ arr = [i \in Batches |-> <<>>]
  /\ errors_log = <<>>
  /\ slept = [i \in Batches |-> <<>>]
  /\ invoked = [i \in Batches |-> 0]
  /\ mpc = "gather"
  /\ merged = <<>>

\* the resolver at rest, for the specification of the batch runner
RIdle == RInit /\ enable_validation

----------------------------------------------------------------------------
(* The cache file of a geocoding run: amap.py main, nominatim.py geocode_batch *)

\* number of items (amap) or names (nominatim) of the run
NumItems == 11

\* amap.py main saves the cache when (i + 1) % 10 == 0
CheckpointEvery == 10

\* The cache file: absent, a complete JSON document of a set of entries, or
\* the cut text an interrupted json.dump left. Entries are numbered in the
\* order in which they enter the cache; an entry is never removed from it.
NoFile == [state |-> "absent", entries |-> {}]
Complete(es) == [state |-> "complete", entries |-> es]
Partial(es) == [state |-> "partial", entries |-> es]

InitialFiles == { NoFile, Complete({1}), Partial({1}) }

\* the load at start: a missing or unreadable file gives an empty cache
load_cache(file) == IF file.state = "complete" THEN file.entries ELSE {}

VARIABLES
  tool,        \* "amap" or "nominatim"
  cpc,         \* "loop", "open", "dump", "ended", "crashed", "reloaded"
  mem,         \* the cache dict in memory
  disk,        \* the cache file
  processed,   \* number of items the loop has handled
  checkpoint   \* history: the entries of the last completed save

cvars == <<tool, cpc, mem, disk, processed, checkpoint>>

CInit ==
  /\ tool \in {"amap", "nominatim"}
  /\ disk \in InitialFiles
  /\ mem = load_cache(disk)
  /\ checkpoint = load_cache(disk)
  /\ processed = 0
  /\ cpc = "loop"

\* the next entry number
Fresh == Cardinality(mem) + 1

\* amap.py main, one iteration: geocode_with_fallback adds entries to the
\* cache or finds all it needs there; every tenth item the cache is saved
AmapItem(added) ==
  /\ tool = "amap" /\ cpc = "loop" /\ processed < NumItems
  /\ mem' = IF added THEN mem \cup {Fresh} ELSE mem
  /\ processed' = processed + 1
  /\ cpc' = IF (processed + 1) % CheckpointEvery = 0 THEN "open" ELSE "loop"
  /\ UNCHANGED <<tool, disk, checkpoint>>

\* amap.py main after the loop: the final save
AmapFinal ==
  /\ tool = "amap" /\ cpc = "loop" /\ processed = NumItems
  /\ processed' = processed + 1
  /\ cpc' = "open"
  /\ UNCHANGED <<tool, mem, disk, checkpoint>>

\* geocode_batch, one iteration: a cached name is skipped, any other name
\* is geocoded, stored and the cache is saved
NominatimName(cached) ==
  /\ tool = "nominatim" /\ cpc = "loop" /\ processed < NumItems
  /\ cached => mem # {}
  /\ processed' = processed + 1
  /\ IF cached
     THEN mem' = mem /\ cpc' = "loop"
     ELSE mem' = mem \cup {Fresh} /\ cpc' = "open"
  /\ UNCHANGED <<tool, disk, checkpoint>>

\* geocode_batch returns
NominatimReturn ==
  /\ tool = "nominatim" /\ cpc = "loop" /\ processed = NumItems
  /\ cpc' = "ended"
  /\ UNCHANGED <<tool, mem, disk, processed, checkpoint>>

\* open(path, "w"): the file is created or truncated to nothing
OpenForWrite ==
  /\ cpc = "open"
  /\ disk' = Partial({})
  /\ cpc' = "dump"
  /\ UNCHANGED <<tool, mem, processed, checkpoint>>

\* json.dump has written a part of the document
DumpSome ==
  /\ cpc = "dump"
  /\ disk.state = "partial" /\ disk.entries # mem
  /\ \E es \in SUBSET mem :
       /\ es # disk.entries /\ disk.entries \subseteq es
       /\ \A e \in es : \A d \in mem : d < e => d \in es
       /\ disk' = Partial(es)
  /\ UNCHANGED <<tool, cpc, mem, processed, checkpoint>>

\* json.dump is over and the file is closed: the save is complete
CloseFile ==
  /\ cpc = "dump"
  /\ disk' = Complete(mem)
  /\ checkpoint' = mem
  /\ cpc' = IF tool = "amap" /\ processed > NumItems THEN "ended" ELSE "loop"
  /\ UNCHANGED <<tool, mem, processed>>

\* the process is killed
Crash ==
  /\ cpc \in {"loop", "open", "dump"}
  /\ cpc' = "crashed"
  /\ UNCHANGED <<tool, mem, disk, processed, checkpoint>>

\* the next run loads the cache file
Reload ==
  /\ cpc = "crashed"
  /\ mem' = load_cache(disk)
  /\ cpc' = "reloaded"
  /\ UNCHANGED <<tool, disk, processed, checkpoint>>

\* no geocoding run, for the other specifications
CIdle ==
  /\ tool = "amap"
  /\ disk = NoFile
  /\ mem = {}
  /\ checkpoint = {}
  /\ processed = 0
  /\ cpc = "loop"

----------------------------------------------------------------------------
(* The token bucket of AmapClient: RateLimiter (amap.py), called by threads *)

(* Time is in ticks of half a second and tokens are in units of a quarter  *)
(* of a token, so that the refill of a tick and the sleep for a missing    *)
(* token are whole numbers for the rates of the model.                     *)

\* the threads that call acquire(), and the acquire() calls of a run
NumThreads == 2
MaxAcquires == 3
Threads == 1..NumThreads

\* 1.0 token; rate_per_sec = 0.5, 1 and 2 in units per tick
TokenUnit == 4
Rates == {1, 2, 4}

Max(a, b) == IF a >= b THEN a ELSE b
Min(a, b) == IF a <= b THEN a ELSE b
CeilDiv(a, b) == (a + b - 1) \div b

\* capacity = max(1, int(rate)), for a rate of r units per tick, in units
capacity_of(r) == TokenUnit * Max(1, (2 * r) \div TokenUnit)

VARIABLES
  rate,       \* RateLimiter.rate, in units per tick
  capacity,   \* RateLimiter.capacity, in units
  tokens,     \* RateLimiter.tokens, in units
  elapsed,    \* the clock less RateLimiter.timestamp, up to the ticks that fill the bucket
  lock,       \* holder of RateLimiter.lock, or None
  tpc,        \* each thread's position
  need,       \* each thread's remaining sleep, in ticks
  started,    \* history: the number of acquire() calls made
  returned,   \* history: the number of acquire() calls that returned
  clock       \* history: the ticks since the construction, up to MaxTicks

tvars ==
  <<rate, capacity, tokens, elapsed, lock, tpc, need, started, returned, clock>>

\* the ticks after which the bucket is full whatever it held
FillTicks == CeilDiv(capacity, rate)

\* the ticks after which more tokens were granted than the run can take
MaxTicks == CeilDiv(MaxAcquires * TokenUnit, rate)

TInit ==
  /\ rate \in Rates
  /\ capacity = capacity_of(rate)
  /\ tokens = capacity
  /\ elapsed = 0
  /\ lock = None
  /\ tpc = [t \in Threads |-> "idle"]
  /\ need = [t \in Threads |-> 0]
  /\ started = 0
  /\ returned = 0
  /\ clock = 0

\* a thread calls acquire() and comes to "with self.lock"
Acquire(t) ==
  /\ tpc[t] = "idle"
  /\ started < MaxAcquires
  /\ started' = started + 1
  /\ tpc' = [tpc EXCEPT ![t] = "lock"]
  /\ UNCHANGED <<rate, capacity, tokens, elapsed, lock, need, returned, clock>>

\* mutant: the lock is taken without waiting for it
Enter_NoWait(t) ==
  /\ tpc[t] = "lock"
  /\ lock' = Some(t)
  /\ tpc' = [tpc EXCEPT ![t] = "in"]
  /\ UNCHANGED <<rate, capacity, tokens, elapsed, need, started, returned, clock>>

\* "with self.lock": the thread takes the free lock
Enter(t) ==
  /\ tpc[t] = "lock"
  /\ lock = None
  /\ lock' = Some(t)
  /\ tpc' = [tpc EXCEPT ![t] = "in"]
  /\ UNCHANGED <<rate, capacity, tokens, elapsed, need, started, returned, clock>>

\* now = time.monotonic(); elapsed = now - self.timestamp;
\* self.timestamp = now; self.tokens = min(capacity, tokens + elapsed * rate)
Refill(t) ==
  /\ tpc[t] = "in"
  /\ tokens' = Min(capacity, tokens + elapsed * rate)
  /\ elapsed' = 0
  /\ tpc' = [tpc EXCEPT ![t] = "refilled"]
  /\ UNCHANGED <<rate, capacity, lock, need, started, returned, clock>>

\* mutant: the sleep for the missing token is inside "with self.lock"
Take_KeepsLock(t) ==
  /\ tpc[t] = "refilled"
  /\ IF tokens >= TokenUnit
     THEN /\ tokens' = tokens - TokenUnit
          /\ returned' = returned + 1
          /\ tpc' = [tpc EXCEPT ![t] = "idle"]
          /\ lock' = IF lock = Some(t) THEN None ELSE lock
          /\ need' = need
     ELSE /\ need' = [need EXCEPT ![t] = CeilDiv(TokenUnit - tokens, rate)]
          /\ tpc' = [tpc EXCEPT ![t] = "sleep"]
          /\ UNCHANGED <<tokens, returned, lock>>
  /\ UNCHANGED <<rate, capacity, elapsed, started, clock>>

\* if self.tokens >= 1.0: self.tokens -= 1.0; return -- else
\* need = (1.0 - self.tokens) / self.rate, and the lock is left for the sleep
Take(t) ==
  /\ tpc[t] = "refilled"
  /\ lock' = IF lock = Some(t) THEN None ELSE lock
  /\ IF tokens >= TokenUnit
     THEN /\ tokens' = tokens - TokenUnit
          /\ returned' = returned + 1
          /\ tpc' = [tpc EXCEPT ![t] = "idle"]
          /\ need' = need
     ELSE /\ need' = [need EXCEPT ![t] = CeilDiv(TokenUnit - tokens, rate)]
          /\ tpc' = [tpc EXCEPT ![t] = "sleep"]
          /\ UNCHANGED <<tokens, returned>>
  /\ UNCHANGED <<rate, capacity, elapsed, started, clock>>

\* time.sleep(max(need, 0.001)) is over and the loop starts again
Wake(t) ==
  /\ tpc[t] = "sleep"
  /\ need[t] = 0
  /\ tpc' = [tpc EXCEPT ![t] = "lock"]
  /\ UNCHANGED <<rate, capacity, tokens, elapsed, lock, need, started, returned, clock>>

\* the monotonic clock advances by a tick
Tick ==
  /\ elapsed' = Min(FillTicks, elapsed + 1)
  /\ need' = [t \in Threads |-> Max(0, need[t] - 1)]
  /\ clock' = Min(MaxTicks, clock + 1)
  /\ UNCHANGED <<rate, capacity, tokens, lock, tpc, started, returned>>

\* the limiter at rest, for the other specifications
TIdle ==
  /\ rate = 1
  /\ capacity = capacity_of(1)
  /\ tokens = capacity
  /\ elapsed = 0
  /\ lock = None
  /\ tpc = [t \in Threads |-> "idle"]
  /\ need = [t \in Threads |-> 0]
  /\ started = 0
  /\ returned = 0
  /\ clock = 0

----------------------------------------------------------------------------
(* Validation (validator.py) and the inputs of the validators *)

SuffixSheng == <<"sheng">>

\* geocode_places.py: the item handed to validate_geocode_result
output_item(geo) ==
  [latitude |-> geo.lat, longitude |-> geo.lon, locality |-> geo.locality,
   formattedAddress |-> geo.display_name]

\* validator.py validate_locality_match, without the text of the reason;
\* the item has no "display_name", so that "or" gives "" for a
\* formattedAddress that is None or ""
validator_validate_locality_match(query_levels, result) ==
  LET result_locality == result.locality
      result_formatted ==
        IF TruthyStr(result.formattedAddress) THEN result.formattedAddress[1]
        ELSE <<>>
      query_city == IF Len(query_levels) >= 2 THEN query_levels[2] ELSE <<>>
      query_district == IF Len(query_levels) >= 3 THEN query_levels[3] ELSE <<>>
      query_city_base == Replace(Replace(query_city, SuffixShi), SuffixDiqu)
      result_formatted_normalized ==
        Replace(Replace(result_formatted, SuffixSheng), SuffixShi)
  IN  IF /\ TruthyStr(result_locality)
         /\ query_district # <<>>
         /\ ~IsSubstr(query_district, result_locality[1])
         /\ ~IsSubstr(query_district, result_formatted)
      THEN FALSE
      ELSE IF /\ TruthyStr(result_locality)
              /\ query_city # <<>>
              /\ ~IsSubstr(query_city, result_formatted)
           THEN FALSE
           ELSE IF /\ result_formatted # <<>>
                   /\ query_city_base # <<>>
                   /\ ~IsSubstr(query_city_base, result_formatted_normalized)
                THEN FALSE
                ELSE TRUE

\* validator.py validate_coordinate_distance, without the text of the
\* reason; the item has no "lat" and no "lon"
validator_validate_coordinate_distance(query_levels, result) ==
  IF ~TruthyNum(result.latitude) \/ ~TruthyNum(result.longitude) THEN TRUE
  ELSE LET query_city == IF Len(query_levels) >= 2 THEN query_levels[2] ELSE <<>>
       IN  IF query_city = <<>> \/ query_city \notin DOMAIN CITY_CENTERS THEN TRUE
           ELSE LET centre == CITY_CENTERS[query_city]
                    distance == haversine_distance(centre[1], centre[2],
                                                   result.latitude[1],
                                                   result.longitude[1])
                    max_distance ==
                      IF Len(query_levels) >= 4 THEN MAX_DISTANCE.street
                      ELSE IF Len(query_levels) >= 3 THEN MAX_DISTANCE.district
                      ELSE IF Len(query_levels) >= 2 THEN MAX_DISTANCE.city
                      ELSE MAX_DISTANCE.province
                IN  ~(distance > max_distance)

\* mutant: the distance is not checked once the locality check failed
validate_geocode_result_ShortCircuit(query_levels, result, check_locality, check_distance) ==
  LET locality == validator_validate_locality_match(query_levels, result)
      distance == validator_validate_coordinate_distance(query_levels, result)
      checks1 ==
        IF check_locality
        THEN <<[check |-> "locality_match", passed |-> locality]>>
        ELSE <<>>
      checks2 ==
        IF check_distance /\ ~(check_locality /\ ~locality)
        THEN Append(checks1, [check |-> "distance_check", passed |-> distance])
        ELSE checks1
  IN  [validation_passed |->
         ~(check_locality /\ ~locality) /\ ~(check_distance /\ ~distance),
       checks |-> checks2]

\* validator.py validate_geocode_result; all_passed starts True and is set
\* to False by each enabled check that fails
validate_geocode_result(query_levels, result, check_locality, check_distance) ==
  LET locality == validator_validate_locality_match(query_levels, result)
      distance == validator_validate_coordinate_distance(query_levels, result)
      checks1 ==
        IF check_locality
        THEN <<[check |-> "locality_match", passed |-> locality]>>
        ELSE <<>>
      checks2 ==
        IF check_distance
        THEN Append(checks1, [check |-> "distance_check", passed |-> distance])
        ELSE checks1
  IN  [validation_passed |->
         ~(check_locality /\ ~locality) /\ ~(check_distance /\ ~distance),
       checks |-> checks2]

\* the addresses given to the validators, as levels: none, a province, a
\* city of the table, with a district, with a street, and a city that is
\* not in the table
LevelsInputs ==
  { <<>>,
    << <<"Z">> >>,
    << <<"Z">>, Hangzhou >>,
    << <<"Z">>, Hangzhou, <<"S">> >>,
    << <<"Z">>, Hangzhou, <<"S">>, <<"L">> >>,
    << <<"Z">>, <<"N", "shi">>, <<"S">> >> }

\* the coordinates of a result: <<lat, lon>>
CoordInputs ==
  { <<None, None>>, <<Some(302567), None>>,
    <<Some(302567), Some(1201486)>>,
    <<Some(304536), Some(1201676)>>, <<Some(304537), Some(1201676)>>,
    <<Some(307180), Some(1202380)>>, <<Some(307181), Some(1202380)>>,
    <<Some(316207), Some(1202478)>>, <<Some(316208), Some(1202478)>>,
    <<Some(320603), Some(1187969)>>,
    <<Some(0), Some(1201551)>>, <<Some(302741), Some(0)>> }

LocalityInputs == { None, Some(<<>>), Some(<<"S">>), Some(<<"X">>) }

DisplayInputs ==
  { None, Some(<<"Z", "H", "shi", "S">>), Some(<<"H", "S">>),
    Some(<<"B", "shi", "X">>) }

ResultInputs ==
  { [lat |-> c[1], lon |-> c[2], display_name |-> d, locality |-> l] :
      c \in CoordInputs, d \in DisplayInputs, l \in LocalityInputs }

VARIABLES
  v_levels,        \* query_levels
  v_result,        \* the normalized result
  check_locality,  \* the check_locality argument
  check_distance,  \* the check_distance argument
  vpc,             \* "input", "amap" or "validator"
  locality_ok,     \* amap.py: locality_ok, or None
  distance_ok,     \* amap.py: distance_ok, or None
  validation       \* validator.py: what validate_geocode_result returned, or None

vvars ==
  <<v_levels, v_result, check_locality, check_distance, vpc, locality_ok,
    distance_ok, validation>>

VInit ==
  /\ v_levels \in LevelsInputs
  /\ v_result \in ResultInputs
  /\ check_locality \in BOOLEAN
  /\ check_distance \in BOOLEAN
  /\ vpc = "input"
  /\ locality_ok = None
  /\ distance_ok = None
  /\ validation = None

\* amap.py 393-394, 420-421: both validators are called on the result
AmapValidate ==
  /\ vpc = "input"
  /\ locality_ok' = Some(validate_locality_match(v_levels, v_result))
  /\ distance_ok' = Some(validate_coordinate_distance(v_levels, v_result))
  /\ vpc' = "amap"
  /\ UNCHANGED <<v_levels, v_result, check_locality, check_distance, validation>>

\* geocode_places.py 96-97: validate_geocode_result on the output item
ValidatorValidate ==
  /\ vpc = "input"
  /\ validation' = Some(validate_geocode_result(v_levels, output_item(v_result),
                                                 check_locality, check_distance))
  /\ vpc' = "validator"
  /\ UNCHANGED <<v_levels, v_result, check_locality, check_distance,
                 locality_ok, distance_ok>>

\* the validators at rest, for the other specifications
VIdle ==
  /\ v_levels = <<>>
  /\ v_result = [lat |-> None, lon |-> None, display_name |-> None,
                 locality |-> None]
  /\ check_locality = TRUE
  /\ check_distance = TRUE
  /\ vpc = "input"
  /\ locality_ok = None
  /\ distance_ok = None
  /\ validation = None

----------------------------------------------------------------------------
(* call_llm and run_extraction (llm_runner.py), run again after interruptions *)

\* lines of the prompts file, values of config.retry_count, runs in a row
NumPrompts == 2
MaxRetryCount == 2
MaxRuns == 2

Prompts == 1..NumPrompts

\* the status codes call_llm retries
TransientStatus == {429, 500, 502, 503, 504}

\* the status codes of the model's HTTP errors
Statuses == {404, 429, 501, 503}

\* What a request comes to: the parsed content (a JSON value that is truthy,
\* "object", or falsy, "empty"), urllib.error.HTTPError with a status code,
\* json.JSONDecodeError, or any other exception.
Replies ==
  [kind : {"object", "empty", "decode", "other"}, code : {0}]
    \cup [kind : {"http"}, code : Statuses]

VARIABLES
  prompts,        \* per line: "item" or "invalid" (json.loads raises)
  files,          \* per line: its output file, "absent", "partial" or "whole"
  retry_count,    \* config.retry_count
  skip_existing,  \* the skip_existing argument
  epc,            \* "loop", "request", "open", "dump", "returned", "crashed"
  line_no,        \* i + 1 of the line being handled
  llm_attempt,    \* call_llm: attempt
  result,         \* what call_llm returned last, or None
  success,        \* the counters of the summary
  skipped,
  failed,
  runs,           \* history: runs started
  requests,       \* history: requests of the call_llm in progress
  reply,          \* history: what the last request came to
  llm_calls,      \* history: the lines call_llm was called for in this run
  skipped_lines,  \* history: the lines this run skipped
  completed,      \* history: the lines whose output was written to the end
  completed0      \* history: completed, when this run started

evars ==
  <<prompts, files, retry_count, skip_existing, epc, line_no, llm_attempt,
    result, success, skipped, failed, runs, requests, reply, llm_calls,
    skipped_lines, completed, completed0>>

EInit ==
  /\ prompts \in [Prompts -> {"item", "invalid"}]
  /\ files = [p \in Prompts |-> "absent"]
  /\ retry_count \in 0..MaxRetryCount
  /\ skip_existing \in BOOLEAN
  /\ epc = "loop"
  /\ line_no = 1
  /\ llm_attempt = 0
  /\ result = None
  /\ success = 0 /\ skipped = 0 /\ failed = 0
  /\ runs = 1
  /\ requests = 0
  /\ reply = None
  /\ llm_calls = {}
  /\ skipped_lines = {}
  /\ completed = {}
  /\ completed0 = {}

\* call_llm returns None and run_extraction counts the line as failed
CallFailed ==
  /\ result' = None
  /\ failed' = failed + 1
  /\ line_no' = line_no + 1
  /\ epc' = "loop"
  /\ UNCHANGED <<files, success, completed>>

\* mutant: the last attempt is followed by one more
Retry_OneMore ==
  /\ llm_attempt' = llm_attempt + 1
  /\ IF llm_attempt + 1 < retry_count + 1
     THEN /\ epc' = "request"
          /\ UNCHANGED <<files, result, success, failed, line_no, completed>>
     ELSE CallFailed

\* call_llm: the next iteration of the attempt loop, or the return after it
Retry ==
  /\ llm_attempt' = llm_attempt + 1
  /\ IF llm_attempt + 1 < retry_count
     THEN /\ epc' = "request"
          /\ UNCHANGED <<files, result, success, failed, line_no, completed>>
     ELSE CallFailed

\* one iteration of run_extraction up to the first request of call_llm
NextLine ==
  /\ epc = "loop" /\ line_no <= NumPrompts
  /\ IF prompts[line_no] = "invalid"
     THEN /\ failed' = failed + 1
          /\ line_no' = line_no + 1
          /\ UNCHANGED <<epc, llm_attempt, result, skipped, requests, reply,
                         llm_calls, skipped_lines>>
     ELSE IF skip_existing /\ files[line_no] # "absent"
          THEN /\ skipped' = skipped + 1
               /\ skipped_lines' = skipped_lines \cup {line_no}
               /\ line_no' = line_no + 1
               /\ UNCHANGED <<epc, llm_attempt, result, failed, requests, reply,
                              llm_calls>>
          ELSE /\ llm_calls' = llm_calls \cup {line_no}
               /\ llm_attempt' = 0
               /\ requests' = 0
               /\ reply' = None
               /\ IF 0 < retry_count
                  THEN /\ epc' = "request"
                       /\ UNCHANGED <<result, failed, line_no>>
                  ELSE /\ result' = None
                       /\ failed' = failed + 1
                       /\ line_no' = line_no + 1
                       /\ epc' = "loop"
               /\ UNCHANGED <<skipped, skipped_lines>>
  /\ UNCHANGED <<prompts, files, retry_count, skip_existing, success, runs,
                 completed, completed0>>

\* call_llm: one request and what follows it
Request(r) ==
  /\ epc = "request"
  /\ requests' = requests + 1
  /\ reply' = Some(r)
  /\ CASE r.kind = "object" ->
            /\ result' = Some(r.kind)
            /\ epc' = "open"
            /\ UNCHANGED <<files, llm_attempt, success, failed, line_no, completed>>
       [] r.kind = "empty" ->
            /\ result' = Some(r.kind)
            /\ failed' = failed + 1
            /\ line_no' = line_no + 1
            /\ epc' = "loop"
            /\ UNCHANGED <<files, llm_attempt, success, completed>>
       [] r.kind = "http" ->
            IF r.code \in TransientStatus
            THEN Retry
            ELSE CallFailed /\ UNCHANGED llm_attempt
       [] r.kind \in {"decode", "other"} ->
            IF llm_attempt < retry_count - 1
            THEN Retry
            ELSE CallFailed /\ UNCHANGED llm_attempt
  /\ UNCHANGED <<prompts, retry_count, skip_existing, skipped, runs, llm_calls,
                 skipped_lines, completed0>>

\* open(output_path, 'w'): the output file is there, without content
OpenOutput ==
  /\ epc = "open"
  /\ files' = [files EXCEPT ![line_no] = "partial"]
  /\ epc' = "dump"
  /\ UNCHANGED <<prompts, retry_count, skip_existing, line_no, llm_attempt,
                 result, success, skipped, failed, runs, requests, reply,
                 llm_calls, skipped_lines, completed, completed0>>

\* json.dump has written the output and the file is closed
DumpOutput ==
  /\ epc = "dump"
  /\ files' = [files EXCEPT ![line_no] = "whole"]
  /\ completed' = completed \cup {line_no}
  /\ success' = success + 1
  /\ line_no' = line_no + 1
  /\ epc' = "loop"
  /\ UNCHANGED <<prompts, retry_count, skip_existing, llm_attempt, result,
                 skipped, failed, runs, requests, reply, llm_calls,
                 skipped_lines, completed0>>

\* run_extraction returns the summary
ReturnSummary ==
  /\ epc = "loop" /\ line_no > NumPrompts
  /\ epc' = "returned"
  /\ UNCHANGED <<prompts, files, retry_count, skip_existing, line_no,
                 llm_attempt, result, success, skipped, failed, runs, requests,
                 reply, llm_calls, skipped_lines, completed, completed0>>

\* the run is interrupted (KeyboardInterrupt is no Exception, or a kill)
Interrupt ==
  /\ epc \in {"loop", "request", "open", "dump"}
  /\ epc' = "crashed"
  /\ UNCHANGED <<prompts, files, retry_count, skip_existing, line_no,
                 llm_attempt, result, success, skipped, failed, runs, requests,
                 reply, llm_calls, skipped_lines, completed, completed0>>

\* run_extraction is called again on the same prompts and output directory
Rerun ==
  /\ epc \in {"returned", "crashed"}
  /\ runs < MaxRuns
  /\ runs' = runs + 1
  /\ epc' = "loop"
  /\ line_no' = 1
  /\ llm_attempt' = 0
  /\ result' = None
  /\ success' = 0 /\ skipped' = 0 /\ failed' = 0
  /\ requests' = 0
  /\ reply' = None
  /\ llm_calls' = {}
  /\ skipped_lines' = {}
  /\ completed0' = completed
  /\ UNCHANGED <<prompts, files, retry_count, skip_existing, completed>>

\* no extraction, for the other specifications
EIdle ==
  /\ prompts = [p \in Prompts |-> "item"]
  /\ files = [p \in Prompts |-> "absent"]
  /\ retry_count = 0
  /\ skip_existing = TRUE
  /\ epc = "loop"
  /\ line_no = 1
  /\ llm_attempt = 0
  /\ result = None
  /\ success = 0 /\ skipped = 0 /\ failed = 0
  /\ runs = 1
  /\ requests = 0
  /\ reply = None
  /\ llm_calls = {}
  /\ skipped_lines = {}
  /\ completed = {}
  /\ completed0 = {}

----------------------------------------------------------------------------
(* geocode_batch (nominatim.py) on a list of names, with a cache file *)

\* length of the list of names
MaxNames == 3

\* the names of the model: the empty string and two place names
NameChoices == {"", "A", "B"}

NameLists == [1..MaxNames -> NameChoices]

\* a dict of the cache: name -> Some("place"), or None for a name not found
Dict(keys, value) == [k \in keys |-> value]

\* dict[key] = value
DictPut(d, key, value) ==
  [k \in DOMAIN d \cup {key} |-> IF k = key THEN value ELSE d[k]]

\* the cache file when geocode_batch starts: none, one with a place, one
\* with a name that was not found, one that json.load cannot read
CacheFiles ==
  { [state |-> "absent", entries |-> <<>>],
    [state |-> "complete", entries |-> Dict({"A"}, Some("place"))],
    [state |-> "complete", entries |-> Dict({"B"}, None)],
    [state |-> "partial", entries |-> <<>>] }

\* the load at the start: a missing or unreadable file gives an empty dict
load_names_cache(file) == IF file.state = "complete" THEN file.entries ELSE <<>>

VARIABLES
  names,       \* the names argument
  geo_cache,   \* the cache dict
  cache_file,  \* the file at cache_path
  results,     \* the results dict
  name_no,     \* position of the loop in names
  gpc,         \* "loop", "lookup", "open", "dump", "ended"
  lookups,     \* history: name -> calls of geocode_single in this run
  loaded       \* history: the cache as loaded

gvars ==
  <<names, geo_cache, cache_file, results, name_no, gpc, lookups, loaded>>

GInit ==
  /\ names \in NameLists
  /\ cache_file \in CacheFiles
  /\ geo_cache = load_names_cache(cache_file)
  /\ loaded = load_names_cache(cache_file)
  /\ results = <<>>
  /\ name_no = 1
  /\ gpc = "loop"
  /\ lookups = [n \in NameChoices |-> 0]

\* mutant: a name cached as not found is looked up again
NextName_NegativeRequeried ==
  /\ gpc = "loop" /\ name_no <= MaxNames
  /\ LET name == names[name_no]
     IN  IF name = ""
         THEN /\ name_no' = name_no + 1
              /\ UNCHANGED <<results, gpc>>
         ELSE IF name \in DOMAIN geo_cache /\ geo_cache[name] # None
              THEN /\ results' = DictPut(results, name, geo_cache[name])
                   /\ name_no' = name_no + 1
                   /\ gpc' = gpc
              ELSE /\ gpc' = "lookup"
                   /\ UNCHANGED <<results, name_no>>
  /\ UNCHANGED <<names, geo_cache, cache_file, lookups, loaded>>

\* one iteration up to the call of geocode_single: an empty name is passed
\* over, a name in the cache gets the cached value
NextName ==
  /\ gpc = "loop" /\ name_no <= MaxNames
  /\ LET name == names[name_no]
     IN  IF name = ""
         THEN /\ name_no' = name_no + 1
              /\ UNCHANGED <<results, gpc>>
         ELSE IF name \in DOMAIN geo_cache
              THEN /\ results' = DictPut(results, name, geo_cache[name])
                   /\ name_no' = name_no + 1
                   /\ gpc' = gpc
              ELSE /\ gpc' = "lookup"
                   /\ UNCHANGED <<results, name_no>>
  /\ UNCHANGED <<names, geo_cache, cache_file, lookups, loaded>>

\* geocode_single(name): a place, None when nothing was found, and None
\* when the search raised
geocode_single(outcome) == IF outcome = "found" THEN Some("place") ELSE None

\* the call of geocode_single returns; results and the cache take its value
Lookup(outcome) ==
  /\ gpc = "lookup"
  /\ LET name == names[name_no]
         place == geocode_single(outcome)
     IN  /\ lookups' = [lookups EXCEPT ![name] = @ + 1]
         /\ results' = DictPut(results, name, place)
         /\ geo_cache' = DictPut(geo_cache, name, place)
  /\ gpc' = "open"
  /\ UNCHANGED <<names, cache_file, name_no, loaded>>

\* open(cache_path, "w"): the file is created or truncated to nothing
OpenCacheFile ==
  /\ gpc = "open"
  /\ cache_file' = [state |-> "partial", entries |-> <<>>]
  /\ gpc' = "dump"
  /\ UNCHANGED <<names, geo_cache, results, name_no, lookups, loaded>>

\* json.dump(cache, f) is over and the file is closed; the next iteration
DumpCacheFile ==
  /\ gpc = "dump"
  /\ cache_file' = [state |-> "complete", entries |-> geo_cache]
  /\ name_no' = name_no + 1
  /\ gpc' = "loop"
  /\ UNCHANGED <<names, geo_cache, results, lookups, loaded>>

\* geocode_batch returns results
ReturnResults ==
  /\ gpc = "loop" /\ name_no > MaxNames
  /\ gpc' = "ended"
  /\ UNCHANGED <<names, geo_cache, cache_file, results, name_no, lookups, loaded>>

\* no geocode_batch, for the other specifications
GIdle ==
  /\ names = [i \in 1..MaxNames |-> ""]
  /\ cache_file = [state |-> "absent", entries |-> <<>>]
  /\ geo_cache = <<>>
  /\ loaded = <<>>
  /\ results = <<>>
  /\ name_no = 1
  /\ gpc = "loop"
  /\ lookups = [n \in NameChoices |-> 0]

----------------------------------------------------------------------------
(* Specifications *)

vars == <<rvars, bvars, cvars, tvars, vvars, evars, gvars>>

Init == RInit /\ BIdle /\ CIdle /\ TIdle /\ VIdle /\ EIdle /\ GIdle

Next ==
  \/ \E a \in Addresses : Resolve(a) /\ UNCHANGED <<bvars, cvars, tvars, vvars, evars, gvars>>
  \/ CheckCache /\ UNCHANGED <<bvars, cvars, tvars, vvars, evars, gvars>>
  \/ \E data \in PlaceReplies : PlaceSearch(data) /\ UNCHANGED <<bvars, cvars, tvars, vvars, evars, gvars>>
  \/ \E data \in GeocodeReplies : Geocode(data) /\ UNCHANGED <<bvars, cvars, tvars, vvars, evars, gvars>>

\* geocode_with_fallback called repeatedly on one cache
Spec == Init /\ [][Next]_vars

\* the same, when every lookup and every provider call of a call in
\* progress comes back, with a reply or with an exception
SpecFair ==
  /\ Spec
  /\ WF_vars((\/ CheckCache
              \/ \E data \in PlaceReplies : PlaceSearch(data)
              \/ \E data \in GeocodeReplies : Geocode(data))
               /\ UNCHANGED <<bvars, cvars, tvars, vvars, evars, gvars>>)

BatchInit == BInit /\ RIdle /\ CIdle /\ TIdle /\ VIdle /\ EIdle /\ GIdle

BatchNext ==
  \/ \E i \in Batches : Start(i) /\ UNCHANGED <<rvars, cvars, tvars, vvars, evars, gvars>>
  \/ \E i \in Batches : AcquireSem(i) /\ UNCHANGED <<rvars, cvars, tvars, vvars, evars, gvars>>
  \/ \E i \in Batches : LimiterEnter(i) /\ UNCHANGED <<rvars, cvars, tvars, vvars, evars, gvars>>
  \/ \E i \in Batches : LimiterExit(i) /\ UNCHANGED <<rvars, cvars, tvars, vvars, evars, gvars>>
  \/ \E i \in Batches : \E out \in Outputs(i) : CallReturns(i, out) /\ UNCHANGED <<rvars, cvars, tvars, vvars, evars, gvars>>
  \/ \E i \in Batches : CallRaises(i) /\ UNCHANGED <<rvars, cvars, tvars, vvars, evars, gvars>>
  \/ \E i \in Batches : WriteLockEnter(i) /\ UNCHANGED <<rvars, cvars, tvars, vvars, evars, gvars>>
  \/ \E i \in Batches : AppendSuccess(i) /\ UNCHANGED <<rvars, cvars, tvars, vvars, evars, gvars>>
  \/ \E i \in Batches : AppendRaises(i) /\ UNCHANGED <<rvars, cvars, tvars, vvars, evars, gvars>>
  \/ \E i \in Batches : AppendError(i) /\ UNCHANGED <<rvars, cvars, tvars, vvars, evars, gvars>>
  \/ \E i \in Batches : AppendErrorRaises(i) /\ UNCHANGED <<rvars, cvars, tvars, vvars, evars, gvars>>
  \/ \E i \in Batches : Backoff(i) /\ UNCHANGED <<rvars, cvars, tvars, vvars, evars, gvars>>
  \/ Aggregate /\ UNCHANGED <<rvars, cvars, tvars, vvars, evars, gvars>>
  \/ AggregateNoLog /\ UNCHANGED <<rvars, cvars, tvars, vvars, evars, gvars>>

\* one run of run_batches
SpecBatch == BatchInit /\ [][BatchNext]_vars

CacheInit == CInit /\ RIdle /\ BIdle /\ TIdle /\ VIdle /\ EIdle /\ GIdle

CacheNext ==
  \/ \E added \in BOOLEAN : AmapItem(added) /\ UNCHANGED <<rvars, bvars, tvars, vvars, evars, gvars>>
  \/ AmapFinal /\ UNCHANGED <<rvars, bvars, tvars, vvars, evars, gvars>>
  \/ \E cached \in BOOLEAN : NominatimName(cached) /\ UNCHANGED <<rvars, bvars, tvars, vvars, evars, gvars>>
  \/ NominatimReturn /\ UNCHANGED <<rvars, bvars, tvars, vvars, evars, gvars>>
  \/ OpenForWrite /\ UNCHANGED <<rvars, bvars, tvars, vvars, evars, gvars>>
  \/ DumpSome /\ UNCHANGED <<rvars, bvars, tvars, vvars, evars, gvars>>
  \/ CloseFile /\ UNCHANGED <<rvars, bvars, tvars, vvars, evars, gvars>>
  \/ Crash /\ UNCHANGED <<rvars, bvars, tvars, vvars, evars, gvars>>
  \/ Reload /\ UNCHANGED <<rvars, bvars, tvars, vvars, evars, gvars>>

\* one geocoding run that saves its cache, and the crash that may end it
SpecCache == CacheInit /\ [][CacheNext]_vars

BucketInit == TInit /\ RIdle /\ BIdle /\ CIdle /\ VIdle /\ EIdle /\ GIdle

BucketNext ==
  \/ \E t \in Threads : Acquire(t) /\ UNCHANGED <<rvars, bvars, cvars, vvars, evars, gvars>>
  \/ \E t \in Threads : Enter(t) /\ UNCHANGED <<rvars, bvars, cvars, vvars, evars, gvars>>
  \/ \E t \in Threads : Refill(t) /\ UNCHANGED <<rvars, bvars, cvars, vvars, evars, gvars>>
  \/ \E t \in Threads : Take(t) /\ UNCHANGED <<rvars, bvars, cvars, vvars, evars, gvars>>
  \/ \E t \in Threads : Wake(t) /\ UNCHANGED <<rvars, bvars, cvars, vvars, evars, gvars>>
  \/ Tick /\ UNCHANGED <<rvars, bvars, cvars, vvars, evars, gvars>>

\* threads that call acquire() of one RateLimiter
SpecBucket == BucketInit /\ [][BucketNext]_vars

\* the same, when the clock advances and, while some thread inside
\* acquire() can run, one of them is run
SpecBucketFair ==
  /\ SpecBucket
  /\ WF_vars(Tick /\ UNCHANGED <<rvars, bvars, cvars, vvars, evars, gvars>>)
  /\ WF_vars((\E t \in Threads : Enter(t) \/ Refill(t) \/ Take(t) \/ Wake(t))
               /\ UNCHANGED <<rvars, bvars, cvars, vvars, evars, gvars>>)

ExtractInit == EInit /\ RIdle /\ BIdle /\ CIdle /\ TIdle /\ VIdle /\ GIdle

ExtractNext ==
  \/ NextLine /\ UNCHANGED <<rvars, bvars, cvars, tvars, vvars, gvars>>
  \/ \E r \in Replies : Request(r) /\ UNCHANGED <<rvars, bvars, cvars, tvars, vvars, gvars>>
  \/ OpenOutput /\ UNCHANGED <<rvars, bvars, cvars, tvars, vvars, gvars>>
  \/ DumpOutput /\ UNCHANGED <<rvars, bvars, cvars, tvars, vvars, gvars>>
  \/ ReturnSummary /\ UNCHANGED <<rvars, bvars, cvars, tvars, vvars, gvars>>
  \/ Interrupt /\ UNCHANGED <<rvars, bvars, cvars, tvars, vvars, gvars>>
  \/ Rerun /\ UNCHANGED <<rvars, bvars, cvars, tvars, vvars, gvars>>

\* run_extraction, run again after it returned or was interrupted
SpecExtract == ExtractInit /\ [][ExtractNext]_vars

NamesInit == GInit /\ RIdle /\ BIdle /\ CIdle /\ TIdle /\ VIdle /\ EIdle

NamesNext ==
  \/ NextName /\ UNCHANGED <<rvars, bvars, cvars, tvars, vvars, evars>>
  \/ \E outcome \in {"found", "none", "raised"} : Lookup(outcome) /\ UNCHANGED <<rvars, bvars, cvars, tvars, vvars, evars>>
  \/ OpenCacheFile /\ UNCHANGED <<rvars, bvars, cvars, tvars, vvars, evars>>
  \/ DumpCacheFile /\ UNCHANGED <<rvars, bvars, cvars, tvars, vvars, evars>>
  \/ ReturnResults /\ UNCHANGED <<rvars, bvars, cvars, tvars, vvars, evars>>

\* one call of geocode_batch
SpecNames == NamesInit /\ [][NamesNext]_vars

ValidateInit == VInit /\ RIdle /\ BIdle /\ CIdle /\ TIdle /\ EIdle /\ GIdle

ValidateNext ==
  \/ AmapValidate /\ UNCHANGED <<rvars, bvars, cvars, tvars, evars, gvars>>
  \/ ValidatorValidate /\ UNCHANGED <<rvars, bvars, cvars, tvars, evars, gvars>>

\* the validators applied to an address and a result
SpecValidate == ValidateInit /\ [][ValidateNext]_vars


----------------------------------------------------------------------------
(* Properties of geocode_with_fallback *)

Returned == pc = "done" /\ levels # <<>>

IsNegative(c, q) == cache_key_of(q) \in DOMAIN c /\ c[cache_key_of(q)] = None
IsPositive(c, q) == cache_key_of(q) \in DOMAIN c /\ c[cache_key_of(q)] # None

\* the provider calls of the call in progress made for prefix length k
CallsAt(k) == {i \in 1..Len(calls) : calls[i].n = k}

\* C1: a call on an address with at least one level returns either no
\* result, or a result with matchLevel in 0..len(levels)-1 and
\* validationPassed = True
C1_ResultOrNone ==
  Returned =>
    \/ ret = None
    \/ /\ meta.matchLevel # None
       /\ meta.matchLevel[1] \in 0..(Len(levels) - 1)
       /\ meta.validationPassed = Some(TRUE)

C1_Witness ==
  /\ Returned
  /\ ret # None
  /\ Len(levels) = 4
  /\ meta.matchLevel = Some(3)

\* C2: over all calls that share the cache, no query string is sent to the
\* provider in more than one fallback step
C2_QuerySentAtMostOnce == \A q \in DOMAIN rounds : rounds[q] <= 1

\* C3: resolving the address of the previous call again, on the cache that
\* call left, makes no provider call and returns the same result
C3_Idempotent ==
  (pc = "done" /\ prev # None /\ prev[1].address = address) =>
    (calls = <<>> /\ ret = prev[1].ret)

\* C4: while the cache holds a negative entry for a query, no step calls the
\* provider with that query, and the step taken at that query moves to the
\* next shorter prefix
C4_NegativeNotRequeried ==
  [][\A q \in DOMAIN rounds :
       IsNegative(cache, q) =>
         /\ (Len(calls') > Len(calls) /\ levels' = levels) => query # q
         /\ rounds'[q] = rounds[q]
         /\ (pc = "check" /\ query = q) =>
              (num_levels' = num_levels - 1 /\ pc' \in {"check", "done"})]_rvars

\* the second call, on another address with the same prefix string, has
\* stepped over the negative entry the first call left
C4_Witness ==
  /\ resolves = 2
  /\ address = AddrMerged
  /\ prev # None /\ prev[1].address = AddrStreet
  /\ num_levels = 1
  /\ calls = <<>>
  /\ IsNegative(cache0, query_of(levels, 2))

\* C5: a keyword-search hit that fails validation is followed by the
\* structured-address search of the same query
C5_StructuredAfterInvalidKeyword ==
  \A i \in 1..Len(calls) :
    (calls[i].ep = "place" /\ calls[i].outcome = "invalid") =>
      \/ i = Len(calls) /\ pc = "geocode" /\ num_levels = calls[i].n
      \/ i < Len(calls) /\ calls[i + 1].ep = "geocode"
                        /\ calls[i + 1].n = calls[i].n

\* C6: every prefix length the call has left after calling the provider for
\* it without a validated hit has a negative cache entry
C6_NegativeAfterFailure ==
  \A k \in (num_levels + 1)..Len(levels) :
    CallsAt(k) # {} => IsNegative(cache, query_of(levels, k))

\* C7: at a prefix whose query has a positive cache entry the call returns
\* that entry with matchMethod "cache" and matchLevel len(levels) - k, calls
\* no provider and leaves the cache as it is
C7_CacheHit ==
  [][(pc = "check" /\ IsPositive(cache, query)) =>
       /\ pc' = "done"
       /\ ret' = cache[cache_key]
       /\ meta'.matchMethod = Some("cache")
       /\ meta'.matchLevel = Some(Len(levels) - num_levels)
       /\ calls' = calls
       /\ rounds' = rounds
       /\ cache' = cache]_rvars

C7_Witness ==
  /\ Returned
  /\ meta.matchMethod = Some("cache")
  /\ meta.matchLevel = Some(1)
  /\ calls = <<>>
  /\ ret = cache[cache_key]

\* the top hit the provider returned for prefix length k, normalized
HitsAt(k) == {calls[i].result[1] : i \in {j \in CallsAt(k) : calls[j].result # None}}

\* C8: from an empty cache, when the top hit of the full query fails the
\* distance check and the top hit of the query one level shorter passes
\* validation, the call returns the shorter query's hit with matchLevel 1
C8_FallbackOneLevel ==
  (/\ Returned
   /\ cache0 = <<>>
   /\ enable_validation
   /\ Len(levels) >= 2
   /\ \E far \in HitsAt(Len(levels)) : ~validate_coordinate_distance(levels, far))
  => \A hit \in HitsAt(Len(levels) - 1) :
       ~validation_failed(levels, hit) =>
         (ret = Some(hit) /\ meta.matchLevel = Some(1))

C8_Witness ==
  /\ Returned
  /\ cache0 = <<>>
  /\ enable_validation
  /\ Len(levels) = 4
  /\ \E far \in HitsAt(4) : ~validate_coordinate_distance(levels, far)
  /\ \E hit \in HitsAt(3) :
       /\ ~validation_failed(levels, hit)
       /\ ret = Some(hit)
       /\ meta.matchLevel = Some(1)

\* the state right after a keyword search whose first hit passes validation
KeywordHitValid(i) ==
  /\ calls[i].ep = "place"
  /\ calls[i].result # None
  /\ ~validation_failed(levels, calls[i].result[1])

C9_Shape(method) ==
  (cache0 = <<>> /\ levels # <<>>) =>
    \A i \in 1..Len(calls) :
      KeywordHitValid(i) =>
        /\ i = Len(calls)
        /\ pc = "done"
        /\ ret = calls[i].result
        /\ IsPositive(cache, query_of(levels, calls[i].n))
        /\ cache[cache_key_of(query_of(levels, calls[i].n))] = calls[i].result
        /\ meta.matchMethod = Some(method)
        /\ meta.matchLevel = Some(Len(levels) - calls[i].n)

----------------------------------------------------------------------------
(* Properties of run_batches *)

\* the workers inside "async with sem"
InFlight == {i \in Batches : wpc[i] \in GatePositions}

\* C10: under every interleaving the number of workers between the entry
\* and the exit of the concurrency gate is at most max_concurrency
C10_ConcurrencyBound ==
  /\ Cardinality(InFlight) <= max_concurrency
  /\ sem = max_concurrency - Cardinality(InFlight)

\* the gate is full, a worker is in its call and another waits at the gate
C10_Witness ==
  /\ max_concurrency = 2
  /\ Cardinality(InFlight) = 2
  /\ \E i \in Batches : wpc[i] = "call"
  /\ \E i \in Batches : wpc[i] = "sem"

\* C21: a provider call that raised ends the call of geocode_with_fallback
\* (the error goes to the caller: no later provider call is made in it) and
\* leaves no negative cache entry for its query
C21_ErrorNotCachedNegative ==
  \A i \in 1..Len(calls) :
    calls[i].outcome = "raised" =>
      /\ i = Len(calls)
      /\ ~IsNegative(cache, query_of(levels, calls[i].n))

----------------------------------------------------------------------------
(* Properties of run_batches: resume, retries, aggregation, the log *)

\* batch_jsonl held, when run_batches started, a complete line that is the
\* success record of batch i
HadSuccessRecord(i) ==
  \E k \in 1..Len(log0.lines) :
    \E out \in Outputs(i) : log0.lines[k] = json_dumps(SuccessRecord(i, out))

\* gather has returned: every worker has returned
Gathered == mpc \in {"finished", "nolog"}

Failed(i) == \E k \in 1..Len(errors_log) : errors_log[k].batchIndex = i

\* worker i can take a step
CanStep(i) ==
  \/ wpc[i] \in {"start", "limited", "call", "writing", "errwriting", "backoff"}
  \/ wpc[i] = "sem" /\ sem > 0
  \/ wpc[i] = "limiter" /\ (~limiter_enabled \/ limiter_lock = None)
  \/ wpc[i] \in {"append", "errappend"} /\ write_lock = None

\* C12: on a writable log no exception leaves a worker and gather is never
\* aborted; a worker whose attempts are exhausted returns; while a worker
\* has not returned some worker can step, so that the aggregation is reached;
\* and after a run in which items failed permanently every item that resume
\* did not skip was attempted
C12_FailureDoesNotAbort ==
  writable =>
    /\ mpc # "aborted"
    /\ \A i \in Batches : wpc[i] # "raised"
    /\ \A i \in Batches : Failed(i) => wpc[i] = "done"
    /\ (mpc = "gather" /\ \E i \in Batches : wpc[i] # "done")
         => \E i \in Batches : CanStep(i)
    /\ (Gathered /\ \E i \in Batches : Failed(i))
         => \A j \in Batches : (resume /\ j \in done) \/ invoked[j] >= 1

\* the run has finished, batch 1 failed on every attempt, and batch 2, whose
\* record is the last of the log, is in the output
C12_Witness ==
  /\ mpc = "finished"
  /\ Failed(1) /\ ~Failed(2)
  /\ batch_log # <<>> /\ batch_log[Len(batch_log)] = json_dumps(SuccessRecord(2, <<2>>))
  /\ \E k \in 1..Len(merged) : merged[k] = 2

\* the lines of the errors file that are records of batch i
ErrorRecordsOf(i) == {k \in 1..Len(errors_log) : errors_log[k].batchIndex = i}

\* this run appended a success record of batch i to batch_jsonl
SucceededNow(i) ==
  \E k \in (Len(log0.lines) + 1)..Len(batch_log) :
    batch_log[k][Len(batch_log[k])].obj.batchIndex = i

\* C13 (as stated): an item with a failed record was retried `retries` times
\* after its first attempt, that is, made retries + 1 attempts
C13_RetriedRetriesTimes ==
  \A i \in Batches : Failed(i) => invoked[i] = retries + 1

\* C13 (amended): an item whose every attempt fails makes `retries` attempts
\* in all (retries - 1 retries, each after one backoff sleep), and only then
\* is a failed record appended, exactly once, to the errors file; with
\* retries = 0 there is neither an attempt nor a record
C13_AttemptsThenOneRecord ==
  \A i \in Batches :
    /\ Cardinality(ErrorRecordsOf(i)) <= 1
    /\ wpc[i] \in {"errappend", "errwriting"}
         => invoked[i] = retries /\ ~Failed(i)
    /\ Failed(i)
         => /\ wpc[i] = "done" /\ ~SucceededNow(i)
            /\ invoked[i] = retries /\ Len(slept[i]) = retries - 1
    /\ (wpc[i] = "done" /\ ~(resume /\ i \in done) /\ ~SucceededNow(i))
         => IF retries >= 1 THEN Failed(i)
            ELSE ~Failed(i) /\ invoked[i] = 0

\* with retries = 3 an item has failed three times, slept twice and has
\* its one failed record
C13_Witness ==
  /\ retries = 3
  /\ \E i \in Batches :
       /\ Cardinality(ErrorRecordsOf(i)) = 1
       /\ invoked[i] = 3 /\ Len(slept[i]) = 2

\* C14: the k-th backoff sleep of a worker follows its failed attempt number
\* k and lasts 2^(k-1) seconds, whatever the worker and the run; a worker
\* sleeps only before a further attempt, never after attempt number retries
C14_BackoffDelay ==
  \A i \in Batches :
    /\ \A k \in 1..Len(slept[i]) : slept[i][k] = 2^(k - 1)
    /\ attempt[i] >= 1 => Len(slept[i]) = attempt[i] - 1
    /\ wpc[i] = "backoff" => attempt[i] < retries
    /\ retries >= 1 => Len(slept[i]) <= retries - 1

\* an item has failed three attempts of three: it slept 1 s, then 2 s, and
\* goes to its failed record without a third sleep
C14_Witness ==
  \E i \in Batches :
    /\ retries = 3 /\ attempt[i] = 3
    /\ wpc[i] = "errappend"
    /\ slept[i] = <<1, 2>>

\* the batch indices of the success records this run appended, in the order
\* of their lines
AppendedOrder ==
  [k \in 1..(Len(batch_log) - Len(log0.lines)) |->
     batch_log[Len(log0.lines) + k][Len(batch_log[Len(log0.lines) + k])].obj.batchIndex]

\* C15: the items of the aggregated output are in ascending batch index
\* (the items of batch i are the number i), whatever the order of the lines
\* of batch_jsonl
C15_OutputInIndexOrder ==
  mpc = "finished" =>
    \A a, b \in 1..Len(merged) : a < b => merged[a] < merged[b]

\* the run has finished with all three batches in the output, though the
\* record of batch 2 was appended first and that of batch 0 last
C15_Witness ==
  /\ mpc = "finished"
  /\ log0.lines = <<>>
  /\ AppendedOrder = <<2, 1, 0>>
  /\ merged = <<0, 1, 2>>

\* C16: an item whose attempts were all exhausted in this run has no item in
\* the aggregated output of the run
C16_ExhaustedContributesNothing ==
  mpc = "finished" =>
    \A i \in Batches : Failed(i) => \A k \in 1..Len(merged) : merged[k] # i

\* the workers inside "async with write_lock"
Appending == {i \in Batches : wpc[i] \in {"writing", "errwriting"}}

\* s is t, or t with lines added at its end
Extends(s, t) == Len(s) >= Len(t) /\ SubSeq(s, 1, Len(t)) = t

C18_DoneSetAfterCrash ==
  resume => done = {i \in Batches : HadSuccessRecord(i)}

\* the log ended in the cut record of batch 1: the resumed run skipped
\* batch 0 and calls call_api for batch 1
C18_Witness ==
  /\ resume
  /\ log0.tail = Truncated(SuccessRecord(1, <<1>>))
  /\ done = {0}
  /\ wpc[0] = "done" /\ invoked[0] = 0
  /\ wpc[1] = "call"

\* C20: in a run whose log cannot be appended to, call_api is invoked for no
\* item, and no item is sent to a backoff sleep and a further attempt
C20_NoCallOnUnwritableLog ==
  ~writable =>
    \A i \in Batches : invoked[i] = 0 /\ wpc[i] # "backoff" /\ slept[i] = <<>>

----------------------------------------------------------------------------
(* Properties of the cache file *)

\* C19: after a crash at any point of the run, the cache the next run loads
\* from the file holds every entry of the last completed save
C19_CheckpointSurvivesCrash ==
  cpc = "reloaded" => checkpoint \subseteq mem

----------------------------------------------------------------------------
(* Summary of a run, slots and locks during backoff *)

\* resume skipped batch i: it was in the done set and never started
Skipped(i) == resume /\ i \in done

\* C22: run_batches always completes (the aggregation ends, after every
\* worker returned) and at its end every batch is in exactly one of
\* succeeded, skipped and failed
C22_SummaryCountsPartition ==
  /\ mpc \notin {"nolog", "aborted"}
  /\ mpc = "finished" =>
       \A i \in Batches :
         /\ SucceededNow(i) \/ Skipped(i) \/ Failed(i)
         /\ ~(SucceededNow(i) /\ Skipped(i))
         /\ ~(SucceededNow(i) /\ Failed(i))
         /\ ~(Skipped(i) /\ Failed(i))

\* C23: a worker sleeping in its backoff holds neither the limiter lock nor
\* the write lock nor a slot of the semaphore: the free slots are
\* max_concurrency less the other workers inside the gate
C23_BackoffHoldsNothing ==
  \A i \in Batches :
    wpc[i] = "backoff" =>
      /\ limiter_lock # Some(i)
      /\ write_lock # Some(i)
      /\ sem = max_concurrency - Cardinality(InFlight \ {i})

\* one worker sleeps in its backoff while max_concurrency others are in
\* their call
C23_Witness ==
  /\ max_concurrency = 2
  /\ \E i \in Batches :
       /\ wpc[i] = "backoff"
       /\ Cardinality({j \in Batches \ {i} : wpc[j] = "call"}) = max_concurrency

\* C24: with the limiter enabled call_api is invoked only by the worker
\* that leaves limiter.wait() in that step, on the first attempt and on
\* every retry, and each release of the limiter is at least interval after
\* the release before it
C24_LimiterSpacing ==
  [][limiter_enabled =>
       /\ \A i \in Batches :
            invoked'[i] # invoked[i] =>
              /\ limiter_lock = Some(i) /\ limiter_lock' = None
              /\ invoked'[i] = attempt[i]
       /\ (limiter_lock # None /\ limiter_lock' = None) =>
            last' - last >= interval]_bvars

\* the limiter released the first attempt and the retry of one worker
\* exactly interval apart, and another worker waits for its first release
C24_Witness ==
  /\ limiter_enabled
  /\ last = 2 * interval
  /\ \E i, j \in Batches :
       /\ i # j
       /\ wpc[i] = "call" /\ attempt[i] = 2 /\ invoked[i] = 2
       /\ invoked[j] = 0 /\ wpc[j] = "limiter"

----------------------------------------------------------------------------
(* Properties of the token bucket *)

\* the threads inside "with self.lock"
Inside == {t \in Threads : tpc[t] \in {"in", "refilled"}}

\* the threads that called acquire() and have not returned
Blocked == {t \in Threads : tpc[t] # "idle"}

\* C25: under every interleaving the tokens stay within 0..capacity, a
\* thread inside the critical section holds the lock from its refill to
\* its test, an acquire() returns in the step that takes exactly one token,
\* in the critical section of its refill, tokens are taken by nothing else,
\* and the tokens of the acquires that returned are at most the initial
\* capacity and rate times the time since the construction
C25_BucketSafety ==
  /\ [](/\ tokens \in 0..capacity
        /\ \A t \in Inside : lock = Some(t)
        /\ returned * TokenUnit <= capacity + rate * clock)
  /\ [][/\ returned' # returned =>
            /\ returned' = returned + 1
            /\ tokens' = tokens - TokenUnit
            /\ \E t \in Threads :
                 /\ tpc[t] = "refilled" /\ lock = Some(t)
                 /\ tpc'[t] = "idle" /\ lock' = None
        /\ tokens' < tokens => returned' = returned + 1]_tvars

\* the bucket gave all it could: every token of the initial capacity and
\* of two ticks was taken by acquires of both threads' critical sections,
\* and a thread that refilled is about to find the bucket empty
C25_Witness ==
  /\ clock = 2
  /\ returned * TokenUnit = capacity + rate * clock
  /\ \E t \in Threads : tpc[t] = "refilled" /\ lock = Some(t)

\* C26: a sleeping thread does not hold the lock, a thread that waits for
\* the lock while the others sleep can take it, and for every rate of the
\* model, while threads are in acquire() one of them returns later, and so
\* on until none is left in acquire()
C26_BucketLiveness ==
  /\ [](\A t \in Threads :
          tpc[t] = "sleep" =>
            /\ lock # Some(t)
            /\ (\A u \in Threads \ {t} : tpc[u] \in {"sleep", "idle", "lock"})
                 => lock = None)
  /\ (Blocked # {}) ~> (Blocked = {})

\* a thread sleeps for a token while another is in the critical section
C26_Witness ==
  /\ tokens < TokenUnit
  /\ \E t, u \in Threads :
       tpc[t] = "sleep" /\ need[t] > 0 /\ tpc[u] = "refilled"

----------------------------------------------------------------------------
(* Properties of the validators *)

\* the city and the district of the address
VCity == IF Len(v_levels) >= 2 THEN v_levels[2] ELSE <<>>
VDistrict == IF Len(v_levels) >= 3 THEN v_levels[3] ELSE <<>>

\* the verdict of the locality check, where one was given
LocalityReported == vpc = "amap" \/ (vpc = "validator" /\ check_locality)
LocalityVerdict ==
  IF vpc = "amap" THEN locality_ok[1] ELSE validation[1].checks[1].passed

\* the verdict of the distance check, where one was given
DistanceReported == vpc = "amap" \/ (vpc = "validator" /\ check_distance)
DistanceVerdict ==
  IF vpc = "amap" THEN distance_ok[1]
  ELSE validation[1].checks[Len(validation[1].checks)].passed

\* the distance from the centre of the city of the address to the result
VDistance ==
  haversine_distance(CITY_CENTERS[VCity][1], CITY_CENTERS[VCity][2],
                     v_result.lat[1], v_result.lon[1])

\* the thresholds of the distance check, in 0.01 km: 20, 50, 150, 800 km
Threshold ==
  IF Len(v_levels) >= 4 THEN 2000
  ELSE IF Len(v_levels) = 3 THEN 5000
  ELSE IF Len(v_levels) = 2 THEN 15000
  ELSE 80000

\* C27: validate_geocode_result reports one entry for each enabled check,
\* locality before distance, each with the verdict of its check on the
\* inputs whatever the other check gave, and validation_passed is the
\* conjunction of the entries (true when there is none); geocode_with_fallback
\* has the verdicts of both checks
C27_AndOfEnabledChecks ==
  /\ vpc = "validator" =>
       LET item == output_item(v_result)
           locality ==
             IF check_locality
             THEN <<[check |-> "locality_match",
                     passed |-> validator_validate_locality_match(v_levels, item)]>>
             ELSE <<>>
           distance ==
             IF check_distance
             THEN <<[check |-> "distance_check",
                     passed |-> validator_validate_coordinate_distance(v_levels, item)]>>
             ELSE <<>>
       IN  /\ validation[1].checks = locality \o distance
           /\ validation[1].validation_passed =
                (\A k \in DOMAIN validation[1].checks :
                   validation[1].checks[k].passed)
  /\ vpc = "amap" =>
       /\ locality_ok = Some(validate_locality_match(v_levels, v_result))
       /\ distance_ok = Some(validate_coordinate_distance(v_levels, v_result))

\* both checks are enabled and both fail: two entries, not passed
C27_Witness ==
  /\ vpc = "validator"
  /\ check_locality /\ check_distance
  /\ Len(validation[1].checks) = 2
  /\ ~validation[1].checks[1].passed
  /\ ~validation[1].checks[2].passed
  /\ ~validation[1].validation_passed

\* C28: where the distance check is performed (a result whose coordinates
\* Python holds true, an address whose city is in the table), it accepts
\* exactly when the distance is at most the threshold of the number of
\* levels: 20 km for four and more, 50 km for three, 150 km for two
C28_DistanceThreshold ==
  (/\ DistanceReported
   /\ TruthyNum(v_result.lat) /\ TruthyNum(v_result.lon)
   /\ VCity \in DOMAIN CITY_CENTERS)
    => (DistanceVerdict <=> VDistance <= Threshold)

\* a result exactly at the threshold of a street address is accepted
C28_Witness ==
  /\ vpc = "amap"
  /\ Len(v_levels) = 4
  /\ TruthyNum(v_result.lat) /\ TruthyNum(v_result.lon)
  /\ VCity \in DOMAIN CITY_CENTERS
  /\ VDistance = 2000
  /\ distance_ok = Some(TRUE)

\* C29: for every result that has a latitude and a longitude, whatever
\* their values, and every address whose city is in the table, the
\* distance check rejects a result beyond the threshold
C29_CheckedWheneverCoordinates ==
  (/\ DistanceReported
   /\ v_result.lat # None /\ v_result.lon # None
   /\ VCity \in DOMAIN CITY_CENTERS
   /\ VDistance > Threshold)
    => ~DistanceVerdict

\* C30: a result whose display_name is absent is rejected only if its
\* locality is present and lacks the district of the address, and a result
\* whose locality is absent is rejected only if its display_name is present
\* and lacks the city of the address
C30_AbsentFieldNeverRejects ==
  LET locality == v_result.locality
      display == v_result.display_name
      city_base == Replace(Replace(VCity, SuffixShi), SuffixDiqu)
  IN  (LocalityReported /\ ~LocalityVerdict) =>
        /\ ~TruthyStr(display) =>
             /\ TruthyStr(locality)
             /\ VDistrict # <<>>
             /\ ~IsSubstr(VDistrict, locality[1])
        /\ ~TruthyStr(locality) =>
             /\ TruthyStr(display)
             /\ city_base # <<>>
             /\ ~IsSubstr(city_base, display[1])

\* C31: for a result whose locality and display_name are both present the
\* locality check fails exactly when the district of the address is not
\* empty and is in neither of them, or the city of the address without its
\* suffix is not in the display_name
C31_LocalityExact ==
  LET locality == v_result.locality
      display == v_result.display_name
      city_base ==
        Replace(Replace(Replace(VCity, SuffixShi), SuffixDiqu), SuffixZizhizhou)
  IN  (LocalityReported /\ TruthyStr(locality) /\ TruthyStr(display)) =>
        (~LocalityVerdict <=>
           \/ /\ VDistrict # <<>>
              /\ ~IsSubstr(VDistrict, locality[1])
              /\ ~IsSubstr(VDistrict, display[1])
           \/ ~IsSubstr(city_base, display[1]))

----------------------------------------------------------------------------
(* Properties of geocode_with_fallback: cached results, the cache, termination *)

\* C32: with validation enabled, the result a call returns passes both
\* validators on the levels of the address of that call, also when it comes
\* from a cache entry that a call on another address stored
C32_ReturnedResultValid ==
  (Returned /\ enable_validation /\ ret # None) =>
    /\ validate_locality_match(levels, ret[1])
    /\ validate_coordinate_distance(levels, ret[1])

\* C35: the entries of the cache are written once: a key that is in the
\* cache, with a result or with None, stays in it with the same value through
\* every later fallback step and every later call
C35_CacheWriteOnce ==
  [][\A k \in DOMAIN cache : k \in DOMAIN cache' /\ cache'[k] = cache[k]]_rvars

\* a later call on an address that shares a prefix with an earlier one has
\* added its own entries and has returned the entry the earlier call stored
C35_Witness ==
  /\ Returned /\ resolves >= 2
  /\ cache0 # <<>>
  /\ DOMAIN cache # DOMAIN cache0
  /\ meta.matchMethod = Some("cache")
  /\ \E k \in DOMAIN cache0 : cache0[k] = None

InProgress == pc \in {"check", "place", "geocode"}

\* what is left of the loop: three positions for each prefix not yet left
Remaining ==
  3 * num_levels + (CASE pc = "check" -> 3 [] pc = "place" -> 2
                      [] pc = "geocode" -> 1 [] OTHER -> 0)

\* C37: a call returns; the prefixes it tries have the lengths len(levels)
\* down to 1, one less at each new iteration, each is the join of the first
\* levels in their order and is tried once; a prefix gets at most two
\* provider calls, the keyword search and then the structured search; the
\* call returns None exactly when the loop ran out of prefixes
C37_ResolverTerminates ==
  /\ [](/\ \A i, j \in 1..Len(calls) :
             i < j => \/ calls[j].n < calls[i].n
                      \/ /\ calls[j].n = calls[i].n /\ j = i + 1
                         /\ calls[i].ep = "place" /\ calls[j].ep = "geocode"
        /\ \A i \in 1..Len(calls) :
             /\ calls[i].n \in 1..Len(levels)
             /\ calls[i].ep = "geocode" =>
                  i > 1 /\ calls[i - 1].ep = "place" /\ calls[i - 1].n = calls[i].n
        /\ \A k \in 1..Len(levels) : Cardinality(CallsAt(k)) <= 2
        /\ InProgress => num_levels \in 1..Len(levels)
        /\ Returned => /\ ret = None <=> num_levels = 0
                       /\ ret = None =>
                            \A i \in 1..Len(calls) : calls[i].outcome # "valid")
  /\ [][InProgress =>
          /\ Remaining' < Remaining
          /\ num_levels' \in {num_levels, num_levels - 1}
          /\ (pc' = "check") => num_levels' = num_levels - 1
          /\ \A q \in DOMAIN rounds :
               rounds'[q] # rounds[q] => q = Join(SubSeq(levels, 1, num_levels))
          /\ levels' = levels]_rvars
  /\ InProgress ~> Returned

\* a call on an address of four levels that got no hit from either search
\* at any of its prefixes and returned None
C37_Witness ==
  /\ Returned /\ ret = None /\ num_levels = 0
  /\ Len(levels) = 4
  /\ Len(calls) = 2 * Len(levels)

----------------------------------------------------------------------------
(* Properties of run_batches: terminal records, read back, termination *)

\* the success records of batch i that this run appended to batch_jsonl
SuccessRecordsOf(i) ==
  {k \in (Len(log0.lines) + 1)..Len(batch_log) :
     batch_log[k][Len(batch_log[k])].obj.batchIndex = i}

\* C33: when run_batches is over, every batch that resume did not skip has
\* exactly one record written in this run, a success record in batch_jsonl
\* or an error record in the errors log, whatever retries is
C33_OneTerminalRecord ==
  mpc # "gather" =>
    \A i \in Batches :
      ~Skipped(i) =>
        Cardinality(SuccessRecordsOf(i)) + Cardinality(ErrorRecordsOf(i)) = 1

\* C34: every success record this run appended is read back: a later run's
\* load_done_batches has its batch index, and the aggregation of this run
\* takes the output of that batch from it, also when batch_jsonl ended in a
\* line a crash had cut short
C34_AppendedRecordReadBack ==
  \A k \in (Len(log0.lines) + 1)..Len(batch_log) :
    LET record == batch_log[k][Len(batch_log[k])].obj
        lines == file_lines(batch_log, batch_tail)
    IN  /\ json_loads(batch_log[k]) = Some(record)
        /\ record.batchIndex \in load_done_batches(lines)
        /\ results_by_batch(lines, record.batchIndex) = record.output
        /\ mpc = "finished" => merged = MergeFrom(lines, 0)

\* the steps worker i has left at most: nine for each attempt not yet begun
\* and the rest of the attempt it is in
StepsLeft(i) ==
  CASE wpc[i] \in {"done", "raised"} -> 0
    [] wpc[i] = "start" -> 9 * retries + 9
    [] OTHER ->
         9 * (retries - attempt[i])
           + (CASE wpc[i] = "sem" -> 8 [] wpc[i] = "limiter" -> 7
                [] wpc[i] = "limited" -> 6 [] wpc[i] = "call" -> 5
                [] wpc[i] = "append" -> 4 [] wpc[i] = "writing" -> 3
                [] wpc[i] = "backoff" -> 2 [] wpc[i] = "errappend" -> 2
                [] wpc[i] = "errwriting" -> 1)

RECURSIVE StepsLeftFrom(_)
StepsLeftFrom(i) ==
  IF i >= NumBatches THEN 0 ELSE StepsLeft(i) + StepsLeftFrom(i + 1)

\* the steps the run has left at most, the aggregation included
RunStepsLeft == StepsLeftFrom(0) + (IF mpc = "gather" THEN 1 ELSE 0)

\* C36: run_batches ends when every call_api returns or raises: while the
\* run is not over some worker can step or all workers have returned and
\* the aggregation follows, whatever workers wait for the semaphore, the
\* lock of the rate limiter and write_lock; no worker begins more than
\* `retries` attempts; and every step of the run takes at least one off the
\* finite number of steps the run has left
C36_RunTerminates ==
  /\ [](/\ mpc = "gather" =>
             \/ \E i \in Batches : CanStep(i)
             \/ \A i \in Batches : wpc[i] = "done"
        /\ \A i \in Batches : attempt[i] <= retries /\ invoked[i] <= retries
        /\ RunStepsLeft >= 0)
  /\ [][RunStepsLeft' < RunStepsLeft]_bvars

\* both slots of the semaphore are taken, by a worker that sleeps in wait()
\* with the lock of the rate limiter and by one that waits for that lock,
\* while a third worker waits for a slot on its second attempt
C36_Witness ==
  \E i, j, k \in Batches :
    /\ sem = 0 /\ limiter_lock = Some(i)
    /\ wpc[i] = "limited"
    /\ wpc[j] = "limiter" /\ ~CanStep(j)
    /\ wpc[k] = "sem" /\ ~CanStep(k) /\ attempt[k] = 2

----------------------------------------------------------------------------
(* Properties of call_llm and run_extraction *)

\* C38: a call of call_llm sends at most retry_count requests; an HTTP error
\* with a status outside {429, 500, 502, 503, 504} ends the call with None
\* without another request; a status of that set, a decode error or any
\* other error is followed by another request while attempts are left and
\* by the return of None when they are used up
C38_CallLlmRetries ==
  /\ [](requests <= retry_count)
  /\ [][requests' = requests + 1 =>
         LET r == reply'[1]
             transient == r.kind = "http" /\ r.code \in {429, 500, 502, 503, 504}
             permanent == r.kind = "http" /\ ~transient
             ended_none ==
               epc' = "loop" /\ result' = None /\ line_no' = line_no + 1
         IN  /\ permanent => ended_none
             /\ (transient \/ r.kind \in {"decode", "other"}) =>
                  IF requests' < retry_count
                  THEN epc' = "request" /\ line_no' = line_no
                  ELSE ended_none]_evars

\* the call made retry_count requests, the last of them answered with
\* status 503 like the one before, and returned None
C38_Witness ==
  /\ retry_count >= 2 /\ requests = retry_count
  /\ reply = Some([kind |-> "http", code |-> 503])
  /\ epc = "loop" /\ result = None /\ failed >= 1

\* C39: with skip_existing the LLM is called for no line that a run before
\* completed, a line is skipped only if its output was written to the end
\* by a run before, and a run that returns has skipped exactly the lines
\* completed before it, whatever runs were interrupted
C39_SkippedAreCompleted ==
  skip_existing =>
    /\ llm_calls \cap completed0 = {}
    /\ llm_calls \cap skipped_lines = {}
    /\ skipped_lines \subseteq completed
    /\ epc = "returned" =>
         skipped_lines = {p \in completed0 : prompts[p] = "item"}

----------------------------------------------------------------------------
(* Properties of geocode_batch *)

\* C40: a run of geocode_batch looks a name up at most once, never looks up
\* the empty name or a name the loaded cache holds, with a place or as not
\* found, and at each iteration that follows a lookup the cache file holds
\* the whole cache, that is the loaded entries and every name looked up
C40_OneLookupPerName ==
  /\ \A n \in NameChoices : lookups[n] <= 1
  /\ lookups[""] = 0
  /\ \A n \in DOMAIN loaded : lookups[n] = 0
  /\ gpc \in {"loop", "ended"} =>
       /\ DOMAIN geo_cache = DOMAIN loaded \cup {n \in NameChoices : lookups[n] = 1}
       /\ (\E n \in NameChoices : lookups[n] = 1) =>
            cache_file = [state |-> "complete", entries |-> geo_cache]

\* the run is over: "A" came twice in names and was looked up once, "B" was
\* cached as not found and was not looked up, and the file holds both
C40_Witness ==
  /\ gpc = "ended"
  /\ \E i, j, k \in 1..MaxNames :
       i < j /\ names[i] = "A" /\ names[j] = "A" /\ names[k] = "B"
  /\ loaded = Dict({"B"}, None)
  /\ lookups["A"] = 1 /\ lookups["B"] = 0
  /\ cache_file.state = "complete" /\ DOMAIN cache_file.entries = {"A", "B"}

====
